---------------------------- MODULE Spec2Model ----------------------------
(***************************************************************************)
(* A model of infi.parted (src/src/infi/parted/__init__.py): the Disk      *)
(* orchestrator, the two output-format mixins (PartedV1, PartedV2), the    *)
(* partition row parsers and execute_parted's error classification.        *)
(*                                                                         *)
(* Text is modelled as text: every stdout/stderr, table dump line and      *)
(* argument is a string, and the Python string operations the code uses    *)
(* (split, strip, splitlines, slicing, "in", index, int) are operators     *)
(* over the characters of those strings.                                   *)
(***************************************************************************)
EXTENDS Integers, Sequences, FiniteSets, TLC

(***************************************************************************)
(* Python string and list primitives                                       *)
(***************************************************************************)

\* F(e), with e worked out once: a local name bound to a value
With(e, F(_)) == CHOOSE r \in { F(o) : o \in {e} } : TRUE

Min(a, b) == IF a <= b THEN a ELSE b

Max(a, b) == IF a >= b THEN a ELSE b

\* s[i] for a 0-based index i of a string
CharAt(s, i) == SubSeq(s, i + 1, i + 1)

\* s[a:b] for 0 <= a, 0 <= b (strings and lists alike); out-of-range bounds clamp
Slice(s, a, b) == SubSeq(s, a + 1, Min(b, Len(s)))

\* s[:-1]
DropLast(s) == SubSeq(s, 1, Len(s) - 1)

\* s.startswith(prefix) at offset i (0-based)
MatchesAt(s, needle, i) ==
    i + Len(needle) <= Len(s) /\ SubSeq(s, i + 1, i + Len(needle)) = needle

\* needle in s
Contains(s, needle) ==
    With(Len(needle), LAMBDA n : \E i \in 1..(Len(s) - n + 1) : SubSeq(s, i, i + n - 1) = needle)

\* s.find(needle): the first 0-based offset of needle in s, -1 when absent
\* (s.index(needle) raises ValueError exactly when this is -1)
Find(s, needle) ==
    With(Len(needle), LAMBDA n :
    With({i \in 1..(Len(s) - n + 1) : SubSeq(s, i, i + n - 1) = needle}, LAMBDA M :
        IF M = {} THEN -1 ELSE (CHOOSE i \in M : \A j \in M : i <= j) - 1))

\* s.split(sep) for a one-character sep: the list of the fields between separators
SepPositions(s, sep) == {i \in 1..Len(s) : SubSeq(s, i, i) = sep}

\* the fields cut at the separator positions P (ending with the position one past
\* the text), the text before position from already taken
RECURSIVE Fields(_, _, _)
Fields(s, P, from) ==
    With(CHOOSE p \in P : \A q \in P : p <= q, LAMBDA p :
        << SubSeq(s, from + 1, p - 1) >>
          \o (IF p = Len(s) + 1 THEN << >> ELSE Fields(s, P \ {p}, p)))

Split(s, sep) == Fields(s, SepPositions(s, sep) \cup {Len(s) + 1}, 0)

\* s.split(sep, 1)[-1]: the text after the first sep, or all of s without one
AfterFirst(s, sep) ==
    With(Find(s, sep), LAMBDA i : IF i = -1 THEN s ELSE SubSeq(s, i + 2, Len(s)))

\* s.splitlines(): split on newlines, no empty last line for a final newline
SplitLines(s) ==
    IF s = "" THEN << >>
    ELSE IF SubSeq(s, Len(s), Len(s)) = "\n"
         THEN Split(SubSeq(s, 1, Len(s) - 1), "\n")
         ELSE Split(s, "\n")

\* s.strip(chars): drop leading and trailing characters that are in chars
RECURSIVE LStripFrom(_, _, _)
LStripFrom(s, chars, i) ==
    IF i <= Len(s) /\ SubSeq(s, i, i) \in chars
    THEN LStripFrom(s, chars, i + 1) ELSE i

RECURSIVE RStripFrom(_, _, _)
RStripFrom(s, chars, j) ==
    IF j >= 1 /\ SubSeq(s, j, j) \in chars
    THEN RStripFrom(s, chars, j - 1) ELSE j

StripChars(s, chars) ==
    With(LStripFrom(s, chars, 1), LAMBDA i :
    With(RStripFrom(s, chars, Len(s)), LAMBDA j :
        IF i > j THEN "" ELSE SubSeq(s, i, j)))

Whitespace == {" ", "\t", "\n"}

\* s.strip()
Strip(s) == StripChars(s, Whitespace)

Digits == "0123456789"

DigitChars == {SubSeq(Digits, d, d) : d \in 1..10}

\* the value of a digit character
DigitValue == [c \in DigitChars |-> CHOOSE d \in 0..9 : SubSeq(Digits, d + 1, d + 1) = c]

IsDigit(c) == c \in DigitChars

\* str(n) for n >= 0
RECURSIVE Str(_)
Str(n) == IF n < 10 THEN CharAt(Digits, n)
          ELSE Str(n \div 10) \o CharAt(Digits, n % 10)

\* whether int(s) succeeds: optional surrounding whitespace, then digits only
IsInt(s) ==
    With(Strip(s), LAMBDA t : Len(t) > 0 /\ \A i \in 1..Len(t) : IsDigit(SubSeq(t, i, i)))

RECURSIVE DigitsValue(_, _)
DigitsValue(t, n) ==
    IF n = 0 THEN 0
    ELSE DigitsValue(t, n - 1) * 10 + DigitValue[SubSeq(t, n, n)]

\* int(s), defined when IsInt(s)
ToInt(s) == With(Strip(s), LAMBDA t : DigitsValue(t, Len(t)))

\* " ".join(list)
RECURSIVE Join(_, _)
Join(list, sep) ==
    IF Len(list) = 0 THEN ""
    ELSE IF Len(list) = 1 THEN list[1]
    ELSE list[1] \o sep \o Join(Tail(list), sep)

(***************************************************************************)
(* The block device and the external tools (parted, mkfs.<fs>, blkid).     *)
(* infi.parted only shells out; what a command prints and does to the      *)
(* disk is the environment's part.  A disk is a record                     *)
(*   [label, size, parts], parts a list of                                 *)
(*   [number, start, end, fs, tag, node]                                   *)
(* where fs is the filesystem found on the partition ("" for none), tag    *)
(* the GPT name or the MBR type, and node whether the partition's device   *)
(* node is present and readable.                                           *)
(***************************************************************************)

\* label "none": blank disk; "oversize": parted refuses the disk with its
\* loop-partition-table limit; "loop": a table parted reads whose type is
\* neither gpt nor msdos
DiskLabels == {"none", "oversize", "gpt", "msdos", "loop"}

NoTableText(path) == "Error: " \o path \o ": unrecognised disk label\n"

OversizeText(path) ==
    "Error: " \o path \o ": exceeds the loop-partition-table-imposed maximum size\n"

PadRight(s, w) ==
    LET pad == "                " IN s \o SubSeq(pad, 1, Max(w - Len(s), 1))

\* the rows parted prints for a "loop" table: one pseudo-partition
LoopParts(d) ==
    << [number |-> 1, start |-> 0, end |-> d.size - 1, fs |-> "ext3",
        tag |-> "", node |-> TRUE] >>

PrintedParts(d) == IF d.label = "loop" THEN LoopParts(d) ELSE d.parts

\* parted --script --machine <dev> unit B print
\*   BYT;
\*   <path>:<size>B:<transport>:<sector>:<sector>:<label>:<model>;
\*   <number>:<start>B:<end>B:<size>B:<filesystem>:<name>:<flags>;
MachineRow(p, label) ==
    Str(p.number) \o ":" \o Str(p.start) \o "B:" \o Str(p.end) \o "B:"
      \o Str(p.end - p.start + 1) \o "B:" \o p.fs \o ":"
      \o (IF label = "gpt" THEN p.tag ELSE "") \o ":;\n"

RECURSIVE MachineRows(_, _)
MachineRows(parts, label) ==
    IF Len(parts) = 0 THEN ""
    ELSE MachineRow(parts[1], label) \o MachineRows(Tail(parts), label)

MachineDump(path, d) ==
    "BYT;\n" \o path \o ":" \o Str(d.size) \o "B:scsi:512:512:" \o d.label
      \o ":QEMU HARDDISK;\n" \o MachineRows(PrintedParts(d), d.label)

\* parted --script <dev> unit B print: the column-aligned dump
HumanHeader(label) ==
    PadRight("Number", 8) \o PadRight("Start", 8) \o PadRight("End", 8)
      \o PadRight("Size", 8)
      \o (IF label = "gpt"
          THEN PadRight("File system", 13) \o PadRight("Name", 9)
          ELSE PadRight("Type", 9) \o PadRight("File system", 13))
      \o "Flags\n"

HumanRow(p, label) ==
    PadRight(" " \o Str(p.number), 8) \o PadRight(Str(p.start) \o "B", 8)
      \o PadRight(Str(p.end) \o "B", 8)
      \o PadRight(Str(p.end - p.start + 1) \o "B", 8)
      \o (IF label = "gpt"
          THEN PadRight(p.fs, 13) \o PadRight(p.tag, 9)
          ELSE PadRight(p.tag, 9) \o PadRight(p.fs, 13))
      \o "\n"

RECURSIVE HumanRows(_, _)
HumanRows(parts, label) ==
    IF Len(parts) = 0 THEN ""
    ELSE HumanRow(parts[1], label) \o HumanRows(Tail(parts), label)

HumanDump(path, d) ==
    "\nModel: QEMU HARDDISK (scsi)\nDisk " \o path \o ": " \o Str(d.size)
      \o "B\nSector size (logical/physical): 512B/512B\nPartition Table: "
      \o d.label \o "\n\n" \o HumanHeader(d.label)
      \o HumanRows(PrintedParts(d), d.label) \o "\n"

(***************************************************************************)
(* How a tool run deviates from the tool's plain behaviour.  plan maps a   *)
(* command shape (print, mklabel, mkpart with a filesystem hint, mkpart    *)
(* without one) to one of these; within one library call the tool answers  *)
(* the same command shape the same way.                                    *)
(*   none            the plain behaviour                                   *)
(*   oserror         the binary is missing: execute() raises OSError       *)
(*   ioctl           exit 1, the device-mapper ioctl message on stderr;    *)
(*                   the command took effect (source lines 151-157)        *)
(*   ioctl_stdout    exit 1, the same message on stdout, nothing done      *)
(*   warning         exit 1, "WARNING" on stdout, the command took effect  *)
(*   warning_stderr  exit 1, "WARNING" on stderr only, nothing done        *)
(*   aligned         exit 1, the alignment advisory on stdout, done        *)
(*   invalid_token   exit 1, "invalid token" on stderr, nothing done       *)
(*   token_warning   exit 1, "invalid token" on stderr and "WARNING" on    *)
(*                   stdout, nothing done                                  *)
(*   busy            exit 1, an unrelated error on stdout, nothing done    *)
(*   nolabel_stderr  exit 1, "unrecognised disk label" on stderr only      *)
(*   nolabel_head    exit 1, "unrecognised disk label" on stdout, before   *)
(*                   the first colon                                       *)
(*   sizelimit       exit 1, stdout says the disk "exceeds the             *)
(*                   loop-partition-table size limit"                      *)
(***************************************************************************)
IoctlText == "device-mapper: create ioctl on sdb1 failed: Device or resource busy\n"

WarningText == "WARNING: the kernel failed to re-read the partition table\n"

AlignedText ==
    "Warning: The resulting partition is not properly aligned for best performance.\n"

BusyText(path) == "Error: Partition(s) on " \o path \o " are being used.\n"

InvalidTokenText(token) == "Error: invalid token: " \o token \o "\n"

NoLabelHeadText(path) == "unrecognised disk label: " \o path \o "\n"

SizeLimitText(path) ==
    "Error: " \o path \o ": exceeds the loop-partition-table size limit\n"

\* the filesystem types this parted accepts as a mkpart hint (line 165: vfat is
\* rejected on centos 7.2)
KnownFsHints == {"ext3", "ext4"}

Overlaps(parts, start, end) ==
    \E i \in 1..Len(parts) : ~(end < parts[i].start \/ start > parts[i].end)

NextNumber(parts) ==
    CHOOSE n \in 1..(Len(parts) + 1) :
        /\ \A i \in 1..Len(parts) : parts[i].number # n
        /\ \A m \in 1..(n - 1) : \E i \in 1..Len(parts) : parts[i].number = m

Ran(rc, out, err, d) == [rc |-> rc, stdout |-> out, stderr |-> err, disk |-> d]

\* parted <dev> unit B print
ToolPrint(d, path, machine) ==
    IF d.label = "none" THEN Ran(1, NoTableText(path), "", d)
    ELSE IF d.label = "oversize" THEN Ran(1, OversizeText(path), "", d)
    ELSE Ran(0, IF machine THEN MachineDump(path, d) ELSE HumanDump(path, d), "", d)

\* parted <dev> mklabel <type>: a new, empty table
ToolMklabel(d, type) ==
    Ran(0, "", "", [d EXCEPT !.label = type, !.parts = << >>])

\* parted <dev> unit B mkpart <name|type> [<fs>] <start>B <end>B
MkpartArguments(cmd) ==
    IF Len(cmd) = 7
    THEN [hinted |-> TRUE, tag |-> cmd[4], fs |-> cmd[5],
          start |-> DropLast(cmd[6]), end |-> DropLast(cmd[7])]
    ELSE [hinted |-> FALSE, tag |-> cmd[4], fs |-> "",
          start |-> DropLast(cmd[5]), end |-> DropLast(cmd[6])]

ToolMkpart(d, path, cmd) ==
    With(MkpartArguments(cmd), LAMBDA a :
        IF d.label = "none" THEN Ran(1, NoTableText(path), "", d)
        ELSE IF d.label = "oversize" THEN Ran(1, OversizeText(path), "", d)
        ELSE IF a.hinted /\ a.fs \notin KnownFsHints
             THEN Ran(1, "", InvalidTokenText(a.fs), d)
        ELSE IF ~IsInt(a.start) \/ ~IsInt(a.end)
             THEN Ran(1, "Error: Invalid number.\n", "", d)
        ELSE
        With(ToInt(a.start), LAMBDA start :
        With(ToInt(a.end), LAMBDA end :
            IF \/ d.label \notin {"gpt", "msdos"}
               \/ start >= end
               \/ end > d.size - 1
               \/ Overlaps(d.parts, start, end)
            THEN Ran(1, "Error: Unable to satisfy all constraints on the partition.\n",
                     "", d)
            ELSE Ran(0, "", "",
                     [d EXCEPT !.parts = Append(@,
                         [number |-> NextNumber(d.parts), start |-> start, end |-> end,
                          fs |-> "", tag |-> a.tag, node |-> FALSE])]))))

IsFlag(a) == MatchesAt(a, "--", 0)

\* which answer of the plan a command line gets
ToolSlot(cmd) ==
    IF Len(cmd) = 3 /\ cmd[3] = "print" THEN "print"
    ELSE IF Len(cmd) = 2 /\ cmd[1] = "mklabel" THEN "mklabel"
    ELSE IF Len(cmd) = 7 /\ cmd[3] = "mkpart" THEN "mkpart"
    ELSE IF Len(cmd) = 6 /\ cmd[3] = "mkpart" THEN "mkpart_nofs"
    ELSE "other"

ToolPlain(d, path, machine, cmd) ==
    With(ToolSlot(cmd), LAMBDA slot :
        IF slot = "print" THEN ToolPrint(d, path, machine)
        ELSE IF slot = "mklabel" THEN ToolMklabel(d, cmd[2])
        ELSE IF slot \in {"mkpart", "mkpart_nofs"} THEN ToolMkpart(d, path, cmd)
        ELSE Ran(1, "", "Error: invalid command\n", d))

\* the plain run of the command line, and the run a fault turns it into
PartedPlain(d, argv) ==
    With(Cardinality({i \in 2..Len(argv) : IsFlag(argv[i])}), LAMBDA nflags :
        ToolPlain(d, argv[nflags + 2], \E i \in 2..Len(argv) : argv[i] = "--machine",
                  SubSeq(argv, nflags + 3, Len(argv))))

PartedPath(argv) == argv[Cardinality({i \in 2..Len(argv) : IsFlag(argv[i])}) + 2]

PartedCommand(argv) ==
    SubSeq(argv, Cardinality({i \in 2..Len(argv) : IsFlag(argv[i])}) + 3, Len(argv))

Benign(d, argv, stdout, stderr) ==
    With(PartedPlain(d, argv),
         LAMBDA plain : Ran(1, stdout \o plain.stdout, stderr, plain.disk))

\* one run of: parted [--script] [--machine] <dev> <command...>
PartedTool(d, argv, plan) ==
    With(plan[ToolSlot(PartedCommand(argv))], LAMBDA fault :
        CASE fault = "none"           -> PartedPlain(d, argv)
          [] fault = "ioctl"          -> Benign(d, argv, "", IoctlText)
          [] fault = "ioctl_stdout"   -> Ran(1, IoctlText, "", d)
          [] fault = "warning"        -> Benign(d, argv, WarningText, "")
          [] fault = "warning_stderr" -> Ran(1, "", WarningText, d)
          [] fault = "aligned"        -> Benign(d, argv, AlignedText, "")
          [] fault = "invalid_token"  -> Ran(1, "", InvalidTokenText("ext3"), d)
          [] fault = "token_warning"  -> Ran(1, WarningText, InvalidTokenText("ext3"), d)
          [] fault = "busy"           -> Ran(1, BusyText(PartedPath(argv)), "", d)
          [] fault = "nolabel_stderr" -> Ran(1, "", NoTableText(PartedPath(argv)), d)
          [] fault = "nolabel_head"   -> Ran(1, NoLabelHeadText(PartedPath(argv)), "", d)
          [] fault = "sizelimit"      -> Ran(1, SizeLimitText(PartedPath(argv)), "", d))

(***************************************************************************)
(* The program state.                                                      *)
(*   host                       what platform.system(), parted --version   *)
(*                              and platform.linux_distribution() answer   *)
(*   PARTED_REQUIRED_ARGUMENTS  the module-level argument list             *)
(*   MatchingPartedMixin        the mixin class Disk was built from        *)
(*   device_access_path         Disk._device_access_path                   *)
(*   disk                       the block device behind that path          *)
(*   last                       the last call made on the Disk: its name,  *)
(*                              arguments, the disk before it, the         *)
(*                              commands it ran (log) and how it ended     *)
(***************************************************************************)
VARIABLES host, PARTED_REQUIRED_ARGUMENTS, MatchingPartedMixin,
          device_access_path, disk, last

vars == << host, PARTED_REQUIRED_ARGUMENTS, MatchingPartedMixin,
           device_access_path, disk, last >>

(***************************************************************************)
(* Python values and outcomes.  A call ends by returning a value or by     *)
(* raising; an exception carries its class, PartedRuntimeError's           *)
(* return code and message, and the class of the exception it is chained   *)
(* to.                                                                     *)
(***************************************************************************)
PyNone == [t |-> "None", v |-> << >>]

PyStr(s) == [t |-> "str", v |-> s]

PyBool(b) == [t |-> "bool", v |-> b]

PyInt(n) == [t |-> "int", v |-> n]

PyList(l) == [t |-> "list", v |-> l]

Return(v) ==
    [kind |-> "return", value |-> v, exc |-> "", rc |-> 0, msg |-> "", cause |-> ""]

Raise(exc, rc, msg, cause) ==
    [kind |-> "raise", value |-> PyNone, exc |-> exc, rc |-> rc, msg |-> msg,
     cause |-> cause]

\* class InvalidToken(PartedRuntimeError)
IsPartedRuntimeError(exc) == exc \in {"PartedRuntimeError", "InvalidToken"}

\* the state a call threads through its steps, and what a step hands back
Ctx(d, log) == [disk |-> d, log |-> log]

Out(d, log, res) == [disk |-> d, log |-> log, res |-> res]

\* a step that failed: the exception propagates, disk and log as they are
Propagate(o) == o

Ran1(argv, rc, exc) == [argv |-> argv, rc |-> rc, exc |-> exc]

_get_parted_error_message_from_stderr(stderr) == AfterFirst(stderr, ":")

\* execute_parted without the "aligned for best performance" branch
Classify_without_alignment_advisory(parted) ==
    IF parted.rc # 0
    THEN IF Contains(parted.stderr, "device-mapper: create ioctl")
         THEN Return(PyStr(parted.stdout))
         ELSE IF Contains(parted.stdout, "WARNING")
         THEN Return(PyStr(parted.stdout))
         ELSE IF Contains(parted.stderr, "invalid token")
         THEN Raise("InvalidToken", parted.rc, parted.stdout, "")
         ELSE Raise("PartedRuntimeError", parted.rc,
                    _get_parted_error_message_from_stderr(parted.stdout), "")
    ELSE Return(PyStr(parted.stdout))

\* lines 146-169: what a finished run of parted becomes
Classify(parted) ==
    IF parted.rc # 0
    THEN IF Contains(parted.stderr, "device-mapper: create ioctl")
         THEN Return(PyStr(parted.stdout))
         ELSE IF Contains(parted.stdout, "WARNING")
         THEN Return(PyStr(parted.stdout))
         ELSE IF Contains(parted.stdout, "aligned for best performance")
         THEN Return(PyStr(parted.stdout))
         ELSE IF Contains(parted.stderr, "invalid token")
         THEN Raise("InvalidToken", parted.rc, parted.stdout, "")
         ELSE Raise("PartedRuntimeError", parted.rc,
                    _get_parted_error_message_from_stderr(parted.stdout), "")
    ELSE Return(PyStr(parted.stdout))

execute_parted(ctx, args, plan) ==
    With(<< "parted" >> \o PARTED_REQUIRED_ARGUMENTS \o args, LAMBDA commandline_arguments :
        IF plan[ToolSlot(SubSeq(args, 2, Len(args)))] = "oserror"
        THEN Out(ctx.disk,
                 Append(ctx.log, Ran1(commandline_arguments, -1, "PartedNotInstalledException")),
                 Raise("PartedNotInstalledException", 0, "", "OSError"))
        ELSE
        With(PartedTool(ctx.disk, commandline_arguments, plan), LAMBDA parted :
        With(Classify(parted), LAMBDA res :
            Out(parted.disk,
                Append(ctx.log, Ran1(commandline_arguments, parted.rc, res.exc)),
                res))))

Disk_execute_parted(ctx, args, plan) ==
    execute_parted(ctx, << device_access_path >> \o args, plan)

\* the output of parted <device> print, split to lines
read_partition_table(ctx, plan) ==
    With(Disk_execute_parted(ctx, << "unit", "B", "print" >>, plan), LAMBDA o :
        IF o.res.kind = "raise" THEN Propagate(o)
        ELSE Out(o.disk, o.log, Return(SplitLines(o.res.value.v))))

\* has_partition_table taking every PartedRuntimeError for "no table": the
\* else branch that raises InvalidPartitionTable left out
has_partition_table_no_escalation(ctx, plan) ==
    With(read_partition_table(ctx, plan), LAMBDA o :
        IF o.res.kind = "return" THEN Out(o.disk, o.log, Return(PyBool(TRUE)))
        ELSE IF IsPartedRuntimeError(o.res.exc)
        THEN Out(o.disk, o.log, Return(PyBool(FALSE)))
        ELSE Propagate(o))

has_partition_table(ctx, plan) ==
    With(read_partition_table(ctx, plan), LAMBDA o :
        IF o.res.kind = "return" THEN Out(o.disk, o.log, Return(PyBool(TRUE)))
        ELSE IF IsPartedRuntimeError(o.res.exc)
        THEN IF Contains(o.res.msg, "unrecognised disk label")
             THEN Out(o.disk, o.log, Return(PyBool(FALSE)))
             ELSE IF Contains(o.res.msg, "exceeds the loop-partition-table-impose")
             THEN Out(o.disk, o.log, Return(PyBool(FALSE)))
             ELSE Out(o.disk, o.log, Raise("InvalidPartitionTable", 0, "", o.res.exc))
        ELSE Propagate(o))

IndexError == Raise("IndexError", 0, "", "")

ValueError == Raise("ValueError", 0, "", "")

PartedV1_get_partition_table_type(ctx, plan) ==
    \* [4]: 'Partition Table: gpt'
    With(read_partition_table(ctx, plan), LAMBDA o :
        IF o.res.kind = "raise" THEN Propagate(o)
        ELSE IF Len(o.res.value) < 5 THEN Out(o.disk, o.log, IndexError)
        ELSE With(Split(o.res.value[5], ":"), LAMBDA fields :
                 Out(o.disk, o.log, Return(PyStr(Strip(fields[Len(fields)]))))))

PartedV1_get_size_in_bytes(ctx, plan) ==
    \* [2]: 'Disk /dev/sdb: 2147MB'
    With(read_partition_table(ctx, plan), LAMBDA o :
        IF o.res.kind = "raise" THEN Propagate(o)
        ELSE IF Len(o.res.value) < 3 THEN Out(o.disk, o.log, IndexError)
        ELSE With(Split(o.res.value[3], ":"), LAMBDA fields :
             With(DropLast(Strip(fields[Len(fields)])), LAMBDA digits :
                 IF IsInt(digits) THEN Out(o.disk, o.log, Return(PyInt(ToInt(digits))))
                 ELSE Out(o.disk, o.log, ValueError))))

\* PartedV2.get_partition_table_type reading split(":")[4], the sector size, a
\* slip of one in the field index
PartedV2_get_partition_table_type_field4(ctx, plan) ==
    With(read_partition_table(ctx, plan), LAMBDA o :
        IF o.res.kind = "raise" THEN Propagate(o)
        ELSE IF Len(o.res.value) < 2 THEN Out(o.disk, o.log, IndexError)
        ELSE With(Split(o.res.value[2], ":"), LAMBDA fields :
                 IF Len(fields) < 5 THEN Out(o.disk, o.log, IndexError)
                 ELSE Out(o.disk, o.log, Return(PyStr(fields[5])))))

PartedV2_get_partition_table_type(ctx, plan) ==
    With(read_partition_table(ctx, plan), LAMBDA o :
        IF o.res.kind = "raise" THEN Propagate(o)
        ELSE IF Len(o.res.value) < 2 THEN Out(o.disk, o.log, IndexError)
        ELSE With(Split(o.res.value[2], ":"), LAMBDA fields :
                 IF Len(fields) < 6 THEN Out(o.disk, o.log, IndexError)
                 ELSE Out(o.disk, o.log, Return(PyStr(fields[6])))))

PartedV2_get_size_in_bytes(ctx, plan) ==
    With(read_partition_table(ctx, plan), LAMBDA o :
        IF o.res.kind = "raise" THEN Propagate(o)
        ELSE IF Len(o.res.value) < 2 THEN Out(o.disk, o.log, IndexError)
        ELSE With(Split(o.res.value[2], ":"), LAMBDA fields :
                 IF Len(fields) < 2 THEN Out(o.disk, o.log, IndexError)
                 ELSE IF IsInt(DropLast(fields[2]))
                 THEN Out(o.disk, o.log, Return(PyInt(ToInt(DropLast(fields[2])))))
                 ELSE Out(o.disk, o.log, ValueError)))

get_partition_table_type(ctx, plan) ==
    IF MatchingPartedMixin = "PartedV2"
    THEN PartedV2_get_partition_table_type(ctx, plan)
    ELSE PartedV1_get_partition_table_type(ctx, plan)

get_size_in_bytes(ctx, plan) ==
    IF MatchingPartedMixin = "PartedV2"
    THEN PartedV2_get_size_in_bytes(ctx, plan)
    ELSE PartedV1_get_size_in_bytes(ctx, plan)

(***************************************************************************)
(* Partition objects and the row parsers.  A parser returns the object or  *)
(* raises ValueError (a row of the wrong arity, a field that is no         *)
(* number).                                                                *)
(***************************************************************************)

\* from_string: parted prints <digits>B under "unit B", which capacity.from_string
\* rejects with ValueError, so the value is int(capacity_string[:-1])
from_string_ok(capacity_string) == IsInt(DropLast(capacity_string))

from_string(capacity_string) == ToInt(DropLast(capacity_string))

MBRPartition(disk_block_access_path, number, partition_type, start, end, size, filesystem) ==
    [cls |-> "MBRPartition", disk_block_access_path |-> disk_block_access_path,
     number |-> number, start |-> start, end |-> end, size |-> size,
     type |-> partition_type, filesystem |-> filesystem]

GUIDPartition(disk_block_access_path, number, name, start, end, size, filesystem) ==
    [cls |-> "GUIDPartition", disk_block_access_path |-> disk_block_access_path,
     number |-> number, start |-> start, end |-> end, size |-> size,
     name |-> name, filesystem |-> filesystem]

NumbersOk(number, start, end, size) ==
    IsInt(number) /\ from_string_ok(start) /\ from_string_ok(end) /\ from_string_ok(size)

\* the machine-parsable MBR row read in the order of the column-aligned one:
\* number, start, end, size, _type, filesystem, flags
MBRPartition_from_parted_machine_parsable_line_type_first(disk_device_path, line) ==
    With(Split(StripChars(line, {";"}), ":"), LAMBDA f :
        IF Len(f) # 7 THEN ValueError
        ELSE IF ~NumbersOk(f[1], f[2], f[3], f[4]) THEN ValueError
        ELSE Return(MBRPartition(disk_device_path, ToInt(f[1]), f[5], from_string(f[2]),
                                 from_string(f[3]), from_string(f[4]), f[6])))

MBRPartition_from_parted_machine_parsable_line(disk_device_path, line) ==
    With(Split(StripChars(line, {";"}), ":"), LAMBDA f :
        IF Len(f) # 7 THEN ValueError
        \* number, start, end, size, filesystem, _type, flags
        ELSE IF ~NumbersOk(f[1], f[2], f[3], f[4]) THEN ValueError
        ELSE Return(MBRPartition(disk_device_path, ToInt(f[1]), f[6], from_string(f[2]),
                                 from_string(f[3]), from_string(f[4]), f[5])))

GUIDPartition_from_parted_machine_parsable_line(disk_device_path, line) ==
    With(Split(StripChars(line, {";"}), ":"), LAMBDA f :
        IF Len(f) # 7 THEN ValueError
        \* number, start, end, size, filesystem, name, flags
        ELSE IF ~NumbersOk(f[1], f[2], f[3], f[4]) THEN ValueError
        ELSE Return(GUIDPartition(disk_device_path, ToInt(f[1]), f[6], from_string(f[2]),
                                  from_string(f[3]), from_string(f[4]), f[5])))

\* [item.strip() for the slices of line between consecutive column offsets]
ColumnItems(line, column_indexes) ==
    With(column_indexes \o << 1024 >>, LAMBDA indexes_list :
        [index \in 1..(Len(indexes_list) - 1) |->
            Strip(Slice(line, indexes_list[index], indexes_list[index + 1]))])

MBRPartition_from_parted_non_machine_parsable_line(disk_device_path, line, column_indexes) ==
    With(ColumnItems(line, column_indexes), LAMBDA f :
        \* number, start, end, size, _type, filesystem, flags
        IF ~NumbersOk(f[1], f[2], f[3], f[4]) THEN ValueError
        ELSE Return(MBRPartition(disk_device_path, ToInt(f[1]), f[5], from_string(f[2]),
                                 from_string(f[3]), from_string(f[4]), f[6])))

GUIDPartition_from_parted_non_machine_parsable_line(disk_device_path, line, column_indexes) ==
    With(ColumnItems(line, column_indexes), LAMBDA f :
        \* number, start, end, size, filesystem, name, flags
        IF ~NumbersOk(f[1], f[2], f[3], f[4]) THEN ValueError
        ELSE Return(GUIDPartition(disk_device_path, ToInt(f[1]), f[6], from_string(f[2]),
                                  from_string(f[3]), from_string(f[4]), f[5])))

\* a list comprehension over parsed rows: the first row that raises ends it
Comprehension(parsed) ==
    With({k \in 1..Len(parsed) : parsed[k].kind = "raise"}, LAMBDA failed :
        IF failed # {}
        THEN parsed[CHOOSE k \in failed : \A m \in failed : k <= m]
        ELSE Return(PyList([k \in 1..Len(parsed) |-> parsed[k].value])))

RowsFrom(lines, first, upto) ==
    [k \in 1..Max(upto - first + 1, 0) |-> lines[first + k - 1]]

\* [header.index(name) for name in names], and the rows parsed at those offsets
PartedV1_rows(o, header, names, guid, plan) ==
    With([n \in 1..Len(names) |-> Find(header, names[n])], LAMBDA column_indexes :
        IF \E n \in 1..Len(names) : column_indexes[n] = -1
        THEN Out(o.disk, o.log, ValueError)
        ELSE
        With(read_partition_table(Ctx(o.disk, o.log), plan), LAMBDA r :
            IF r.res.kind = "raise" THEN Propagate(r)
            ELSE
            With(RowsFrom(r.res.value, 8, Len(r.res.value) - 1), LAMBDA lines :
                Out(r.disk, r.log, Comprehension(
                    [k \in 1..Len(lines) |->
                       IF guid
                       THEN GUIDPartition_from_parted_non_machine_parsable_line(
                                device_access_path, lines[k], column_indexes)
                       ELSE MBRPartition_from_parted_non_machine_parsable_line(
                                device_access_path, lines[k], column_indexes)])))))

PartedV1_get_partitions(ctx, plan) ==
    With(has_partition_table(ctx, plan), LAMBDA h :
        IF h.res.kind = "raise" THEN Propagate(h)
        ELSE IF ~h.res.value.v THEN Out(h.disk, h.log, Return(PyList(<< >>)))
        ELSE
        With(read_partition_table(Ctx(h.disk, h.log), plan), LAMBDA hd :
            IF hd.res.kind = "raise" THEN Propagate(hd)
            ELSE IF Len(hd.res.value) < 7 THEN Out(hd.disk, hd.log, IndexError)
            ELSE
            With(PartedV1_get_partition_table_type(Ctx(hd.disk, hd.log), plan), LAMBDA t1 :
                IF t1.res.kind = "raise" THEN Propagate(t1)
                ELSE IF t1.res.value.v = "gpt"
                THEN PartedV1_rows(t1, hd.res.value[7],
                                   << "Number", "Start", "End", "Size", "File system",
                                      "Name", "Flags" >>, TRUE, plan)
                ELSE
                With(PartedV1_get_partition_table_type(Ctx(t1.disk, t1.log), plan),
                     LAMBDA t2 :
                    IF t2.res.kind = "raise" THEN Propagate(t2)
                    ELSE IF t2.res.value.v = "msdos"
                    THEN PartedV1_rows(t2, hd.res.value[7],
                                       << "Number", "Start", "End", "Size", "Type",
                                          "File system", "Flags" >>, FALSE, plan)
                    ELSE Out(t2.disk, t2.log, Return(PyNone))))))

\* PartedV2.get_partitions taking the rows from [1:], the disk line included
PartedV2_rows_from_disk_line(o, guid, plan) ==
    With(read_partition_table(Ctx(o.disk, o.log), plan), LAMBDA r :
        IF r.res.kind = "raise" THEN Propagate(r)
        ELSE
        With(RowsFrom(r.res.value, 2, Len(r.res.value)), LAMBDA lines :
            Out(r.disk, r.log, Comprehension(
                [k \in 1..Len(lines) |->
                   IF guid
                   THEN GUIDPartition_from_parted_machine_parsable_line(
                            device_access_path, lines[k])
                   ELSE MBRPartition_from_parted_machine_parsable_line(
                            device_access_path, lines[k])]))))

PartedV2_rows(o, guid, plan) ==
    With(read_partition_table(Ctx(o.disk, o.log), plan), LAMBDA r :
        IF r.res.kind = "raise" THEN Propagate(r)
        ELSE
        With(RowsFrom(r.res.value, 3, Len(r.res.value)), LAMBDA lines :
            Out(r.disk, r.log, Comprehension(
                [k \in 1..Len(lines) |->
                   IF guid
                   THEN GUIDPartition_from_parted_machine_parsable_line(
                            device_access_path, lines[k])
                   ELSE MBRPartition_from_parted_machine_parsable_line(
                            device_access_path, lines[k])]))))

PartedV2_get_partitions(ctx, plan) ==
    With(has_partition_table(ctx, plan), LAMBDA h :
        IF h.res.kind = "raise" THEN Propagate(h)
        ELSE IF ~h.res.value.v THEN Out(h.disk, h.log, Return(PyList(<< >>)))
        ELSE
        With(PartedV2_get_partition_table_type(Ctx(h.disk, h.log), plan), LAMBDA t1 :
            IF t1.res.kind = "raise" THEN Propagate(t1)
            ELSE IF t1.res.value.v = "gpt" THEN PartedV2_rows(t1, TRUE, plan)
            ELSE
            With(PartedV2_get_partition_table_type(Ctx(t1.disk, t1.log), plan), LAMBDA t2 :
                IF t2.res.kind = "raise" THEN Propagate(t2)
                ELSE IF t2.res.value.v = "msdos" THEN PartedV2_rows(t2, FALSE, plan)
                ELSE Out(t2.disk, t2.log, Return(PyNone)))))

get_partitions(ctx, plan) ==
    IF MatchingPartedMixin = "PartedV2"
    THEN PartedV2_get_partitions(ctx, plan)
    ELSE PartedV1_get_partitions(ctx, plan)

(***************************************************************************)
(* Device paths                                                            *)
(***************************************************************************)
UpperCase == "ABCDEFGHIJKLMNOPQRSTUVWXYZ"

LowerCase == "abcdefghijklmnopqrstuvwxyz"

\* s.lower()
RECURSIVE Lower(_)
Lower(s) ==
    IF s = "" THEN ""
    ELSE With(Find(UpperCase, SubSeq(s, 1, 1)), LAMBDA k :
             (IF k = -1 THEN SubSeq(s, 1, 1) ELSE CharAt(LowerCase, k))
                \o Lower(SubSeq(s, 2, Len(s))))

StartsWith(s, prefix) == MatchesAt(s, prefix, 0)

EndsWith(s, suffix) == Len(suffix) <= Len(s) /\ MatchesAt(s, suffix, Len(s) - Len(suffix))

\* match('.*mpath[a-z]+.*', s)
MatchesMpathLetters(s) ==
    \E i \in 0..Len(s) : /\ MatchesAt(s, "mpath", i)
                         /\ i + 5 < Len(s)
                         /\ Contains(LowerCase, CharAt(s, i + 5))

get_multipath_prefix(disk_access_path) ==
    With(Lower(host.dist), LAMBDA ldist :
    With(Split(host.ver, ".")[1], LAMBDA major :
        IF StartsWith(ldist, "red hat") \/ StartsWith(ldist, "centos")
        THEN IF major = "7"
             THEN IF IsDigit(CharAt(disk_access_path, Len(disk_access_path) - 1))
                  THEN "p" ELSE ""
             ELSE "p"
        ELSE IF StartsWith(ldist, "ubuntu") THEN "-part"
        ELSE IF StartsWith(ldist, "suse")
        THEN IF major = "11" THEN "_part" ELSE "-part"
        ELSE IF MatchesMpathLetters(disk_access_path) THEN "p"
        ELSE IF \E k \in 0..5 : EndsWith(disk_access_path, CharAt("abcdef", k))
             THEN "" ELSE "p"))

\* MBRPartition.get_access_path and GUIDPartition.get_access_path (the same body)
Partition_get_access_path(self) ==
    self.disk_block_access_path
      \o (IF Contains(self.disk_block_access_path, "mapper")
          THEN get_multipath_prefix(self.disk_block_access_path) ELSE "")
      \o Str(self.number)

\* the path by name put together without the multipath prefix
_get_partition_acces_path_by_name_bare(partition_number) ==
    device_access_path \o Str(partition_number)

_get_partition_acces_path_by_name(partition_number) ==
    device_access_path
      \o (IF Contains(device_access_path, "mapper")
          THEN get_multipath_prefix(device_access_path) ELSE "")
      \o Str(partition_number)

(***************************************************************************)
(* Retries.  retry_func(WaitAndRetryStrategy(max_retries, wait)) calls the *)
(* method again after each exception, up to the budget, and then lets the  *)
(* last exception out.                                                     *)
(***************************************************************************)
\* @retry_func(WaitAndRetryStrategy(max_retries=60, wait=5))
wait_max_retries == 60

\* @retry_func(WaitAndRetryStrategy(max_retries=120, wait=5))
mkfs_max_retries == 120

\* @retry_func(WaitAndRetryStrategy(max_retries=3, wait=5))
blkid_max_retries == 3

\* The log of a retried method: the commands of one failing attempt, and how
\* many such attempts there were (nothing for none).
Attempts(body, n) == IF n = 0 THEN << >> ELSE << [attempts |-> n, body |-> body] >>

\* str(n) for any integer
StrInt(n) == IF n < 0 THEN "-" \o Str(0 - n) ELSE Str(n)

\* os.path.basename
Basename(path) == With(Split(path, "/"), LAMBDA f : f[Len(f)])

\* list.pop(index) for a 0-based index: the list without that element
Pop(list, index) == SubSeq(list, 1, index) \o SubSeq(list, index + 2, Len(list))

(***************************************************************************)
(* The device nodes.  The kernel (udev, kpartx) names partition n of a     *)
(* disk <path><delimiter>n; the delimiter for device-mapper disks is the   *)
(* table of get_multipath_prefix's docstring (lines 28-44).                *)
(***************************************************************************)
KernelDelimiter(path) ==
    With(Lower(host.dist), LAMBDA ldist :
    With(Split(host.ver, ".")[1], LAMBDA major :
        IF ~Contains(path, "mapper") THEN ""
        ELSE IF StartsWith(ldist, "ubuntu") THEN "-part"
        ELSE IF StartsWith(ldist, "suse")
        THEN IF major = "11" THEN "_part" ELSE "-part"
        ELSE IF (StartsWith(ldist, "red hat") \/ StartsWith(ldist, "centos")) /\ major # "7"
        THEN "p"
        ELSE IF IsDigit(CharAt(path, Len(path) - 1)) THEN "p" ELSE ""))

NodePath(n) == device_access_path \o KernelDelimiter(device_access_path) \o Str(n)

\* the index in d.parts of the partition whose node is access_path, 0 for none
NodeIndex(d, access_path) ==
    With({k \in 1..Len(d.parts) : NodePath(d.parts[k].number) = access_path}, LAMBDA K :
        IF K = {} THEN 0 ELSE CHOOSE k \in K : \A m \in K : k <= m)

(***************************************************************************)
(* Disk: the orchestrator                                                  *)
(***************************************************************************)
SUPPORTED_DISK_LABELS == << "gpt", "msdos" >>

\* START_OFFSET_BY_LABEL_TYPE = dict(gpt=17408, msdos=512)
START_OFFSET_BY_LABEL_TYPE ==
    [label_type \in {"gpt", "msdos"} |-> IF label_type = "gpt" THEN 17408 ELSE 512]

create_a_new_partition_table(ctx, label_type, plan) ==
    IF ~(\E k \in 1..Len(SUPPORTED_DISK_LABELS) : SUPPORTED_DISK_LABELS[k] = label_type)
    THEN Out(ctx.disk, ctx.log, Raise("AssertionError", 0, "", ""))
    ELSE With(Disk_execute_parted(ctx, << "mklabel", label_type >>, plan), LAMBDA o :
             IF o.res.kind = "raise" THEN Propagate(o)
             ELSE Out(o.disk, o.log, Return(PyNone)))

\* the retry with args.pop(3): the name or type dropped, the filesystem hint kept
MkpartWithRetry_pop3(ctx, args, plan) ==
    With(Disk_execute_parted(ctx, args, plan), LAMBDA o :
        IF o.res.kind = "raise" /\ o.res.exc = "InvalidToken"
        THEN With(Disk_execute_parted(Ctx(o.disk, o.log), Pop(args, 3), plan), LAMBDA o2 :
                 IF o2.res.kind = "raise" THEN Propagate(o2)
                 ELSE Out(o2.disk, o2.log, Return(PyNone)))
        ELSE IF o.res.kind = "raise" THEN Propagate(o)
        ELSE Out(o.disk, o.log, Return(PyNone)))

\* try: execute_parted(args)  except InvalidToken: args.pop(4); execute_parted(args)
MkpartWithRetry(ctx, args, plan) ==
    With(Disk_execute_parted(ctx, args, plan), LAMBDA o :
        IF o.res.kind = "raise" /\ o.res.exc = "InvalidToken"
        THEN With(Disk_execute_parted(Ctx(o.disk, o.log), Pop(args, 4), plan), LAMBDA o2 :
                 IF o2.res.kind = "raise" THEN Propagate(o2)
                 ELSE Out(o2.disk, o2.log, Return(PyNone)))
        ELSE IF o.res.kind = "raise" THEN Propagate(o)
        ELSE Out(o.disk, o.log, Return(PyNone)))

_create_gpt_partition(ctx, name, filesystem_name, start, end, plan) ==
    MkpartWithRetry(ctx, << "unit", "B", "mkpart" >> \o << name, filesystem_name, start, end >>,
                    plan)

_create_primary_partition(ctx, filesystem_name, start, end, plan) ==
    MkpartWithRetry(ctx, << "unit", "B", "mkpart" >>
                           \o << "primary", filesystem_name, start, end >>, plan)

\* partprobe, multipath -f, multipath: started with execute(), their exit codes
\* never read
RescanCommands(plan) ==
    << Ran1(<< "partprobe", device_access_path >>, plan.rescan, ""),
       Ran1(<< "multipath", "-f", Basename(device_access_path) >>, plan.rescan, ""),
       Ran1(<< "multipath" >>, plan.rescan, "") >>

force_kernel_to_re_read_partition_table(ctx, plan) ==
    Out(ctx.disk, ctx.log \o RescanCommands(plan), Return(PyNone))

\* One attempt of wait_for_partition_access_path_to_be_created and the retry loop
\* around it.  The table does not change while waiting, so every attempt reads
\* the same partitions; what changes is the node: absent for the first
\* plan.absent attempts, present but unreadable for the next plan.unreadable,
\* then ready (ready at once when it already was).
\* the polls of the node of partitions[0] at position k of the disk (0: no such
\* node): how many find it absent, how many unreadable, within the budget
NodePolls(d, k, plan) ==
    IF k = 0 THEN [absent |-> wait_max_retries, unreadable |-> 0]
    ELSE IF d.parts[k].node THEN [absent |-> 0, unreadable |-> 0]
    ELSE [absent |-> Min(plan.absent, wait_max_retries),
          unreadable |-> Min(plan.unreadable,
                             wait_max_retries - Min(plan.absent, wait_max_retries))]

\* the wait giving up quietly: the budget spent, it returns instead of raising
wait_for_partition_access_path_to_be_created_quiet(ctx, plan) ==
    With(get_partitions(Ctx(ctx.disk, << >>), plan), LAMBDA gp :
        IF gp.res.kind = "raise"
        THEN Out(ctx.disk, ctx.log \o Attempts(gp.log, wait_max_retries), gp.res)
        ELSE IF gp.res.value.t # "list" \/ Len(gp.res.value.v) = 0
        THEN Out(ctx.disk, ctx.log \o Attempts(gp.log, wait_max_retries),
                 Raise("PartedException", 0,
                       "Failed to find partition after creating one", ""))
        ELSE
        With(NodeIndex(ctx.disk, Partition_get_access_path(gp.res.value.v[1])), LAMBDA k :
        With(NodePolls(ctx.disk, k, plan), LAMBDA polls :
            IF polls.absent + polls.unreadable >= wait_max_retries
            THEN Out(ctx.disk,
                     ctx.log \o Attempts(gp.log \o RescanCommands(plan), wait_max_retries),
                     Return(PyNone))
            ELSE Out([ctx.disk EXCEPT !.parts[k].node = TRUE],
                     ctx.log \o Attempts(gp.log \o RescanCommands(plan),
                                         polls.absent + polls.unreadable)
                             \o gp.log,
                     Return(PyNone)))))

wait_for_partition_access_path_to_be_created(ctx, plan) ==
    With(get_partitions(Ctx(ctx.disk, << >>), plan), LAMBDA gp :
        IF gp.res.kind = "raise"
        THEN Out(ctx.disk, ctx.log \o Attempts(gp.log, wait_max_retries), gp.res)
        ELSE IF gp.res.value.t # "list" \/ Len(gp.res.value.v) = 0
        THEN Out(ctx.disk, ctx.log \o Attempts(gp.log, wait_max_retries),
                 Raise("PartedException", 0,
                       "Failed to find partition after creating one", ""))
        ELSE
        With(NodeIndex(ctx.disk, Partition_get_access_path(gp.res.value.v[1])), LAMBDA k :
        With(NodePolls(ctx.disk, k, plan), LAMBDA polls :
            IF polls.absent + polls.unreadable >= wait_max_retries
            THEN Out(ctx.disk,
                     ctx.log \o Attempts(gp.log \o RescanCommands(plan), wait_max_retries),
                     Raise("PartedException", 0,
                           IF polls.unreadable > 0
                           THEN "Read-link Block access path not readable"
                           ELSE "Block access path for created partition does not exist",
                           ""))
            ELSE Out([ctx.disk EXCEPT !.parts[k].node = TRUE],
                     ctx.log \o Attempts(gp.log \o RescanCommands(plan),
                                         polls.absent + polls.unreadable)
                             \o gp.log,
                     Return(PyNone)))))

\* the start offset rounded down to the alignment
AlignedStart_rounded_down(start, alignment_in_bytes) ==
    IF alignment_in_bytes # 0 /\ start % alignment_in_bytes # 0
    THEN start - (start % alignment_in_bytes)
    ELSE start

\* lines 290-293: the start offset, rounded up to the alignment
AlignedStart(start, alignment_in_bytes) ==
    IF alignment_in_bytes # 0 /\ start % alignment_in_bytes # 0
    THEN start + alignment_in_bytes - (start % alignment_in_bytes)
    ELSE start

\* lines 294-300 without line 301: the re-scan started, the node never polled
CreateAndWait_without_wait(ctx, label_type, filesystem_name, start, plan) ==
    With(get_size_in_bytes(ctx, plan), LAMBDA sz :
        IF sz.res.kind = "raise" THEN Propagate(sz)
        ELSE
        With(IF label_type = "gpt"
             THEN _create_gpt_partition(Ctx(sz.disk, sz.log), "None", filesystem_name,
                                        StrInt(start) \o "B",
                                        StrInt(sz.res.value.v - start) \o "B", plan)
             ELSE _create_primary_partition(Ctx(sz.disk, sz.log), filesystem_name,
                                            StrInt(start) \o "B",
                                            StrInt(sz.res.value.v - start) \o "B", plan),
             LAMBDA m :
            IF m.res.kind = "raise" THEN Propagate(m)
            ELSE
            force_kernel_to_re_read_partition_table(Ctx(m.disk, m.log), plan)))

\* lines 294-301, once the label type is one that has a start offset
CreateAndWait(ctx, label_type, filesystem_name, start, plan) ==
    With(get_size_in_bytes(ctx, plan), LAMBDA sz :
        IF sz.res.kind = "raise" THEN Propagate(sz)
        ELSE
        With(IF label_type = "gpt"
             THEN _create_gpt_partition(Ctx(sz.disk, sz.log), "None", filesystem_name,
                                        StrInt(start) \o "B",
                                        StrInt(sz.res.value.v - start) \o "B", plan)
             ELSE _create_primary_partition(Ctx(sz.disk, sz.log), filesystem_name,
                                            StrInt(start) \o "B",
                                            StrInt(sz.res.value.v - start) \o "B", plan),
             LAMBDA m :
            IF m.res.kind = "raise" THEN Propagate(m)
            ELSE
            With(force_kernel_to_re_read_partition_table(Ctx(m.disk, m.log), plan),
                 LAMBDA f :
                wait_for_partition_access_path_to_be_created(Ctx(f.disk, f.log), plan))))

\* create_partition_for_whole_drive writing a new gpt table whatever the check
\* answered
create_partition_for_whole_drive_always_mklabel(ctx, filesystem_name, alignment_in_bytes, plan) ==
    With(has_partition_table(ctx, plan), LAMBDA h :
    With(IF h.res.kind = "return"
         THEN create_a_new_partition_table(Ctx(h.disk, h.log), "gpt", plan)
         ELSE h,
         LAMBDA c :
        IF c.res.kind = "raise" THEN Propagate(c)
        ELSE
        With(get_partition_table_type(Ctx(c.disk, c.log), plan), LAMBDA t :
            IF t.res.kind = "raise" THEN Propagate(t)
            ELSE IF t.res.value.v \notin DOMAIN START_OFFSET_BY_LABEL_TYPE
            THEN Out(t.disk, t.log, Return(PyNone))
            ELSE CreateAndWait(Ctx(t.disk, t.log), t.res.value.v, filesystem_name,
                               AlignedStart(START_OFFSET_BY_LABEL_TYPE[t.res.value.v],
                                            alignment_in_bytes),
                               plan))))

\* create_partition_for_whole_drive taking the msdos offset for a label type
\* the mapping does not have
create_partition_for_whole_drive_default_offset(ctx, filesystem_name, alignment_in_bytes, plan) ==
    With(has_partition_table(ctx, plan), LAMBDA h :
    With(IF h.res.kind = "return" /\ ~h.res.value.v
         THEN create_a_new_partition_table(Ctx(h.disk, h.log), "gpt", plan)
         ELSE h,
         LAMBDA c :
        IF c.res.kind = "raise" THEN Propagate(c)
        ELSE
        With(get_partition_table_type(Ctx(c.disk, c.log), plan), LAMBDA t :
            IF t.res.kind = "raise" THEN Propagate(t)
            ELSE CreateAndWait(Ctx(t.disk, t.log),
                               IF t.res.value.v = "gpt" THEN "gpt" ELSE "msdos",
                               filesystem_name,
                               AlignedStart(START_OFFSET_BY_LABEL_TYPE[
                                                IF t.res.value.v = "gpt" THEN "gpt" ELSE "msdos"],
                                            alignment_in_bytes),
                               plan))))

create_partition_for_whole_drive(ctx, filesystem_name, alignment_in_bytes, plan) ==
    With(has_partition_table(ctx, plan), LAMBDA h :
    With(IF h.res.kind = "return" /\ ~h.res.value.v
         THEN create_a_new_partition_table(Ctx(h.disk, h.log), "gpt", plan)
         ELSE h,
         LAMBDA c :
        IF c.res.kind = "raise" THEN Propagate(c)
        ELSE
        With(get_partition_table_type(Ctx(c.disk, c.log), plan), LAMBDA t :
            IF t.res.kind = "raise" THEN Propagate(t)
            ELSE IF t.res.value.v \notin DOMAIN START_OFFSET_BY_LABEL_TYPE
            THEN Out(t.disk, t.log, Return(PyNone))
            ELSE CreateAndWait(Ctx(t.disk, t.log), t.res.value.v, filesystem_name,
                               AlignedStart(START_OFFSET_BY_LABEL_TYPE[t.res.value.v],
                                            alignment_in_bytes),
                               plan))))

\* _str_extended_options: '' for no options, else ['-E', 'k1=v1,k2,...']
RECURSIVE OptionsText(_)
OptionsText(extended_options) ==
    IF Len(extended_options) = 0 THEN ""
    ELSE (IF extended_options[1].value = PyBool(TRUE)
          THEN extended_options[1].key \o ","
          ELSE extended_options[1].key \o "=" \o extended_options[1].value.v \o ",")
         \o OptionsText(Tail(extended_options))

_str_extended_options(extended_options) ==
    IF Len(extended_options) = 0 THEN << >>
    ELSE << "-E", StripChars(OptionsText(extended_options), {","}) >>

MkfsErrorText(path) == "mkfs: " \o path \o ": Device or resource busy\n"

\* _execute_mkfs logging the failure without raising: a nonzero exit of mkfs
\* ends the call normally
_execute_mkfs_without_raise(ctx, filesystem_name, partition_access_path, extended_options, plan) ==
    With(<< "mkfs." \o filesystem_name, partition_access_path >>
           \o _str_extended_options(extended_options), LAMBDA args :
    With(NodeIndex(ctx.disk, partition_access_path), LAMBDA k :
        IF k = 0 \/ plan.mkfs_failures > 0
        THEN Out(ctx.disk, ctx.log \o << Ran1(args, 1, "") >>, Return(PyNone))
        ELSE Out([ctx.disk EXCEPT !.parts[k].fs = filesystem_name, !.parts[k].node = TRUE],
                 ctx.log \o << Ran1(args, 0, "") >>,
                 Return(PyNone))))

\* mkfs.<fs> <path>: exits nonzero for the first plan.mkfs_failures attempts (for
\* every attempt when path is no partition's node), then makes the filesystem
_execute_mkfs(ctx, filesystem_name, partition_access_path, extended_options, plan) ==
    With(<< "mkfs." \o filesystem_name, partition_access_path >>
           \o _str_extended_options(extended_options), LAMBDA args :
    With(NodeIndex(ctx.disk, partition_access_path), LAMBDA k :
        IF k = 0 \/ plan.mkfs_failures >= mkfs_max_retries
        THEN Out(ctx.disk,
                 ctx.log \o Attempts(<< Ran1(args, 1, "RuntimeError") >>, mkfs_max_retries),
                 Raise("RuntimeError", 0, MkfsErrorText(partition_access_path), ""))
        ELSE Out([ctx.disk EXCEPT !.parts[k].fs = filesystem_name, !.parts[k].node = TRUE],
                 ctx.log \o Attempts(<< Ran1(args, 1, "RuntimeError") >>, plan.mkfs_failures)
                         \o << Ran1(args, 0, "") >>,
                 Return(PyNone))))

\* format_partition asking the kernel to re-read the table before mkfs
format_partition_with_rescan(ctx, partition_number, filesystem_name, extended_options, plan) ==
    With(force_kernel_to_re_read_partition_table(ctx, plan), LAMBDA f :
        _execute_mkfs(Ctx(f.disk, f.log), filesystem_name,
                      _get_partition_acces_path_by_name(partition_number),
                      extended_options, plan))

format_partition(ctx, partition_number, filesystem_name, extended_options, plan) ==
    _execute_mkfs(ctx, filesystem_name, _get_partition_acces_path_by_name(partition_number),
                  extended_options, plan)

\* Partition.get_size_in_bytes returning the size column as it is
Partition_get_size_in_bytes_reported(self) == self.size

\* size may be one byte larger
Partition_get_size_in_bytes(self) == Min(self.end - self.start, self.size)

\* blkid <path>: exit 2 and no output for a partition without a filesystem
BlkidTool(d, access_path) ==
    With(NodeIndex(d, access_path), LAMBDA k :
        IF k = 0 \/ d.parts[k].fs = "" THEN [rc |-> 2, stdout |-> ""]
        ELSE [rc |-> 0,
              stdout |-> access_path \o ": UUID=\"b6e84210\" SEC_TYPE=\"ext2\" TYPE=\""
                           \o d.parts[k].fs \o "\"\n"])

\* search(r' TYPE="([^\"]+)*"', output).group(1)
BlkidType(output) ==
    With(Find(output, " TYPE=\""), LAMBDA i :
    With(Find(SubSeq(output, i + 8, Len(output)), "\""), LAMBDA q :
        IF i = -1 \/ q = -1 THEN Raise("AttributeError", 0, "", "")
        ELSE IF q = 0 THEN Return(PyNone)
        ELSE Return(PyStr(SubSeq(output, i + 8, i + 7 + q)))))

get_filesystem_name_from_blkid(self, ctx) ==
    With(<< "blkid", Partition_get_access_path(self) >>, LAMBDA argv :
    With(BlkidTool(ctx.disk, argv[2]), LAMBDA blkid :
        IF blkid.rc # 0
        THEN Out(ctx.disk,
                 ctx.log \o Attempts(<< Ran1(argv, blkid.rc, "ExecutionError") >>,
                                     blkid_max_retries),
                 Raise("ExecutionError", blkid.rc, "", ""))
        ELSE
        With(BlkidType(blkid.stdout), LAMBDA type :
            IF type.kind = "raise"
            THEN Out(ctx.disk,
                     ctx.log \o Attempts(<< Ran1(argv, 0, "AttributeError") >>,
                                         blkid_max_retries),
                     type)
            ELSE Out(ctx.disk, ctx.log \o << Ran1(argv, 0, "") >>, type))))

\* return self.get_filesystem_name_from_blkid() or self._filesystem
Partition_get_filesystem_name(self, ctx) ==
    With(get_filesystem_name_from_blkid(self, ctx), LAMBDA o :
        IF o.res.kind = "raise" THEN Propagate(o)
        ELSE IF o.res.value.t = "str" /\ o.res.value.v # "" THEN o
        ELSE Out(o.disk, o.log, Return(PyStr(self.filesystem))))

(***************************************************************************)
(* Start-up: the probe of the tool's version decides the output format.    *)
(***************************************************************************)
\* parted --version prints "GNU Parted 1.8.1" or "parted (GNU parted) 2.1\n..."
_get_parted_version(h) ==
    IF ~h.parted_installed THEN Raise("PartedNotInstalledException", 0, "", "OSError")
    ELSE With(Split(SplitLines(h.parted_version_stdout)[1], " "),
              LAMBDA words : Return(words[Len(words)]))

\* parse_version(a) >= parse_version(b) for dotted numbers: component by
\* component, a missing component counting as 0
VersionAtLeast(a, b) ==
    With(Split(a, "."), LAMBDA fa :
    With(Split(b, "."), LAMBDA fb :
    With([k \in 1..Max(Len(fa), Len(fb)) |->
            << IF k <= Len(fa) THEN ToInt(fa[k]) ELSE 0,
               IF k <= Len(fb) THEN ToInt(fb[k]) ELSE 0 >>], LAMBDA pairs :
        \/ \A k \in 1..Len(pairs) : pairs[k][1] = pairs[k][2]
        \/ \E k \in 1..Len(pairs) : /\ pairs[k][1] > pairs[k][2]
                                    /\ \A m \in 1..(k - 1) : pairs[m][1] = pairs[m][2])))

\* the probe without the test of platform.system()
_is_parted_has_machine_parsable_output_any_system(h) ==
    With(_get_parted_version(h), LAMBDA v :
        IF v.kind = "raise" THEN FALSE ELSE VersionAtLeast(v.value, "2.0"))

_is_parted_has_machine_parsable_output(h) ==
    IF h.system # "Linux" THEN FALSE
    ELSE With(_get_parted_version(h), LAMBDA v :
             IF v.kind = "raise" THEN FALSE ELSE VersionAtLeast(v.value, "2.0"))

(***************************************************************************)
(* The hosts, disks, inputs and tool behaviours the model explores         *)
(***************************************************************************)
Hosts ==
    { [system |-> "Linux", parted_installed |-> TRUE,
       parted_version_stdout |->
           "parted (GNU parted) 3.1\nCopyright (C) 2012 Free Software Foundation, Inc.\n",
       dist |-> "CentOS Linux", ver |-> "7.2.1511"],
      [system |-> "Linux", parted_installed |-> TRUE,
       parted_version_stdout |-> "GNU Parted 1.8.1\n",
       dist |-> "CentOS", ver |-> "5.11"] }

DevicePaths == {"/dev/sdb"}

DiskSize == 50000

\* a partition some earlier tool made: formatted, its node in place, lying where
\* a whole-drive partition would go
OldPart(tag) ==
    [number |-> 1, start |-> 20000, end |-> 21999, fs |-> "ext3", tag |-> tag, node |-> TRUE]

InitialDisks ==
    { [label |-> l, size |-> DiskSize, parts |-> << >>] : l \in DiskLabels }
    \cup { [label |-> "gpt", size |-> DiskSize, parts |-> << OldPart("data") >>],
           [label |-> "msdos", size |-> DiskSize, parts |-> << OldPart("primary") >>] }

PlainPlan ==
    [print |-> "none", mklabel |-> "none", mkpart |-> "none", mkpart_nofs |-> "none",
     other |-> "none", rescan |-> 0, absent |-> 0, unreadable |-> 0, mkfs_failures |-> 0]

\* how many attempts a wait or a mkfs may need: a few, or about the budget
SmallDelay == 1

NearBudget == 1

MaxUnreadable == 1

Delays ==
    (0..SmallDelay) \cup ((wait_max_retries - NearBudget)..(wait_max_retries + NearBudget))

MkfsFailures ==
    (0..SmallDelay) \cup ((mkfs_max_retries - NearBudget)..(mkfs_max_retries + NearBudget))

\* what a failed table read may say
ReadFaults ==
    {"none", "oserror", "busy", "warning", "invalid_token", "nolabel_stderr",
     "nolabel_head", "sizelimit"}

\* every way a run of parted may end
ExecFaults ==
    {"none", "oserror", "ioctl", "ioctl_stdout", "warning", "warning_stderr", "aligned",
     "invalid_token", "token_warning", "busy"}

\* create_a_new_partition_table(label_type) and how its mklabel goes
LabelCalls ==
    { [label_type |-> t, mklabel |-> "none"] : t \in {"gpt", "msdos", "bsd"} }
    \cup { [label_type |-> "gpt", mklabel |-> f] : f \in {"ioctl", "busy"} }

\* one thing going wrong per call: a command failing, or the node never coming
WholeDrivePlans ==
    {PlainPlan}
    \cup { [PlainPlan EXCEPT !.print = "busy"] }
    \cup { [PlainPlan EXCEPT !.mklabel = "busy"] }
    \cup { [PlainPlan EXCEPT !.mkpart = f] : f \in {"ioctl", "invalid_token", "busy"} }
    \cup { [PlainPlan EXCEPT !.mkpart = "invalid_token", !.mkpart_nofs = "busy"] }
    \cup { [PlainPlan EXCEPT !.rescan = 1] }
    \cup { [PlainPlan EXCEPT !.absent = wait_max_retries] }

\* create_partition_for_whole_drive(filesystem_name, alignment_in_bytes); alignment 0
\* stands for None
WholeDriveCalls ==
    { [filesystem_name |-> "ext3", alignment_in_bytes |-> 0, plan |-> p] :
          p \in WholeDrivePlans }
    \cup { [filesystem_name |-> "vfat", alignment_in_bytes |-> 0, plan |-> PlainPlan],
           [filesystem_name |-> "ext3", alignment_in_bytes |-> 4096, plan |-> PlainPlan],
           [filesystem_name |-> "ext3", alignment_in_bytes |-> 512, plan |-> PlainPlan] }

\* the node absent for a polls, then (second set) unreadable for u more, ending
\* on the last attempt of the budget or just past it
DelayPlans ==
    { [PlainPlan EXCEPT !.absent = a] : a \in Delays }
    \cup { [PlainPlan EXCEPT !.absent = wait_max_retries - u - e, !.unreadable = u] :
               u \in 1..MaxUnreadable, e \in {0, 1} }

ExtendedOptions ==
    { << >>, << [key |-> "lazy_itable_init", value |-> PyBool(TRUE)] >>,
      << [key |-> "stride", value |-> PyStr("4")] >> }

\* format_partition(partition_number, "ext3", extended_options) and how many mkfs
\* attempts fail first
FormatCalls ==
    { [partition_number |-> 1, extended_options |-> o, mkfs_failures |-> 0] :
          o \in ExtendedOptions }
    \cup { [partition_number |-> 1, extended_options |-> << >>, mkfs_failures |-> n] :
               n \in MkfsFailures }
    \cup { [partition_number |-> 2, extended_options |-> << >>, mkfs_failures |-> 0] }

(***************************************************************************)
(* Init: the module has been imported (the probe has chosen the arguments  *)
(* and the mixin) and a Disk built on a device.                            *)
(***************************************************************************)
NoCall ==
    [op |-> "init", args |-> << >>, before |-> [label |-> "none", size |-> 0, parts |-> << >>],
     plan |-> PlainPlan, log |-> << >>, res |-> Return(PyNone)]

Init ==
    /\ host \in Hosts
    /\ PARTED_REQUIRED_ARGUMENTS =
           << "--script" >> \o (IF _is_parted_has_machine_parsable_output(host)
                                THEN << "--machine" >> ELSE << >>)
    /\ MatchingPartedMixin =
           (IF _is_parted_has_machine_parsable_output(host) THEN "PartedV2" ELSE "PartedV1")
    /\ device_access_path \in DevicePaths
    /\ disk \in InitialDisks
    /\ last = NoCall

\* a call on the Disk: what it leaves on the device and what it gave back
Call(op, args, plan, o) ==
    \E done \in {o} :
        /\ disk' = done.disk
        /\ last' = [op |-> op, args |-> args, before |-> disk, plan |-> plan,
                    log |-> done.log, res |-> done.res]
        /\ UNCHANGED << host, PARTED_REQUIRED_ARGUMENTS, MatchingPartedMixin,
                        device_access_path >>

Here == Ctx(disk, << >>)

ExecuteParted ==
    \E f \in ExecFaults :
        LET plan == [PlainPlan EXCEPT !.print = f]
        IN  Call("execute_parted", << "unit", "B", "print" >>, plan,
                 Disk_execute_parted(Here, << "unit", "B", "print" >>, plan))

HasPartitionTable ==
    \E f \in ReadFaults :
        LET plan == [PlainPlan EXCEPT !.print = f]
        IN  Call("has_partition_table", << >>, plan, has_partition_table(Here, plan))

GetPartitionTableType ==
    \E f \in {"none", "busy"} :
        LET plan == [PlainPlan EXCEPT !.print = f]
        IN  Call("get_partition_table_type", << >>, plan,
                 get_partition_table_type(Here, plan))

GetSizeInBytes ==
    Call("get_size_in_bytes", << >>, PlainPlan, get_size_in_bytes(Here, PlainPlan))

GetPartitions ==
    \E f \in {"none", "warning"} :
        LET plan == [PlainPlan EXCEPT !.print = f]
        IN  Call("get_partitions", << >>, plan, get_partitions(Here, plan))

CreateANewPartitionTable ==
    \E c \in LabelCalls :
        LET plan == [PlainPlan EXCEPT !.mklabel = c.mklabel]
        IN  Call("create_a_new_partition_table", << c.label_type >>, plan,
                 create_a_new_partition_table(Here, c.label_type, plan))

CreatePartitionForWholeDrive ==
    \E c \in WholeDriveCalls :
        Call("create_partition_for_whole_drive",
             << c.filesystem_name, c.alignment_in_bytes >>, c.plan,
             create_partition_for_whole_drive(Here, c.filesystem_name,
                                              c.alignment_in_bytes, c.plan))

WaitForPartitionAccessPathToBeCreated ==
    \E plan \in DelayPlans :
        Call("wait_for_partition_access_path_to_be_created", << >>, plan,
             wait_for_partition_access_path_to_be_created(Here, plan))

FormatPartition ==
    \E c \in FormatCalls :
        LET plan == [PlainPlan EXCEPT !.mkfs_failures = c.mkfs_failures]
        IN  Call("format_partition", << c.partition_number, "ext3", c.extended_options >>,
                 plan,
                 format_partition(Here, c.partition_number, "ext3", c.extended_options,
                                  plan))

\* disk.get_partitions()[i].get_filesystem_name()
GetFilesystemName ==
    \E gp \in {get_partitions(Here, PlainPlan)} :
        /\ gp.res.kind = "return"
        /\ gp.res.value.t = "list"
        /\ \E i \in 1..Len(gp.res.value.v) :
              Call("get_filesystem_name", << i >>, PlainPlan,
                   Partition_get_filesystem_name(gp.res.value.v[i], Ctx(gp.disk, gp.log)))

Next ==
    \/ ExecuteParted
    \/ HasPartitionTable
    \/ GetPartitionTableType
    \/ GetSizeInBytes
    \/ GetPartitions
    \/ CreateANewPartitionTable
    \/ CreatePartitionForWholeDrive
    \/ WaitForPartitionAccessPathToBeCreated
    \/ FormatPartition
    \/ GetFilesystemName

Spec == Init /\ [][Next]_vars

(***************************************************************************)
(* The start-up probe and the device-path resolver on their own: the same  *)
(* module state, over more hosts (other distributions, a host that is not  *)
(* Linux, a host without parted), with get_multipath_prefix applied to     *)
(* device-mapper paths.                                                    *)
(***************************************************************************)

\* what parted --version prints for version <<major, minor>>
VersionText(version) ==
    IF version[1] < 2
    THEN "GNU Parted " \o Str(version[1]) \o "." \o Str(version[2]) \o ".1\n"
    ELSE "parted (GNU parted) " \o Str(version[1]) \o "." \o Str(version[2])
           \o "\nCopyright (C) 2012 Free Software Foundation, Inc.\n"

HostOf(system, installed, version, dist, ver) ==
    [system |-> system, parted_installed |-> installed, parted_version |-> version,
     parted_version_stdout |-> VersionText(version), dist |-> dist, ver |-> ver]

\* platform.linux_distribution() answers ('', '', '') off Linux
ProbedHosts ==
    { HostOf("Linux", TRUE, << 3, 1 >>, "Red Hat Enterprise Linux Server", "7.4"),
      HostOf("Linux", TRUE, << 3, 1 >>, "CentOS Linux", "7.2.1511"),
      HostOf("Linux", TRUE, << 2, 1 >>, "CentOS", "6.8"),
      HostOf("Linux", TRUE, << 1, 8 >>, "CentOS", "5.11"),
      HostOf("Linux", TRUE, << 2, 0 >>, "Red Hat Enterprise Linux Server", "6.0"),
      HostOf("Linux", TRUE, << 2, 3 >>, "Ubuntu", "14.04"),
      HostOf("Linux", TRUE, << 2, 0 >>, "SUSE Linux Enterprise Server", "11"),
      HostOf("Linux", TRUE, << 3, 1 >>, "SUSE Linux Enterprise Server", "12"),
      HostOf("Linux", TRUE, << 1, 9 >>, "debian", "6.0"),
      HostOf("Linux", FALSE, << 3, 1 >>, "CentOS Linux", "7.2.1511"),
      HostOf("Darwin", TRUE, << 3, 1 >>, "", ""),
      HostOf("Windows", FALSE, << 1, 8 >>, "", "") }

\* the access paths of tests/__init__.py, lines 26-53
MapperPaths ==
    { "/dev/mapper/mpatha-part1", "/dev/mapper/mpathac-part1", "/dev/mapper/mpath21-part1",
      "/dev/mapper/mpatha-p1", "/dev/mapper/mpath2p1", "/dev/mapper/mpath2-p1",
      "/dev/mapper/mpath2_part1",
      "/dev/mapper/36742b0f000004e2b0000000000000a0e/dev/mapper/mpath5",
      "/dev/mapper/mpatha", "/dev/mapper/mpathaa", "/dev/mapper/mpathparta",
      "/dev/mapper/mpathapart", "/dev/mapper/mpathpa", "/dev/mapper/mpathapa" }

ProbeInit ==
    /\ host \in ProbedHosts
    /\ PARTED_REQUIRED_ARGUMENTS =
           << "--script" >> \o (IF _is_parted_has_machine_parsable_output(host)
                                THEN << "--machine" >> ELSE << >>)
    /\ MatchingPartedMixin =
           (IF _is_parted_has_machine_parsable_output(host) THEN "PartedV2" ELSE "PartedV1")
    /\ device_access_path \in DevicePaths
    /\ disk = [label |-> "none", size |-> DiskSize, parts |-> << >>]
    /\ last = NoCall

GetMultipathPrefix ==
    \E disk_access_path \in MapperPaths :
        Call("get_multipath_prefix", << disk_access_path >>, PlainPlan,
             Out(disk, << >>, Return(PyStr(get_multipath_prefix(disk_access_path)))))

ProbeNext == GetMultipathPrefix

ProbeSpec == ProbeInit /\ [][ProbeNext]_vars

(***************************************************************************)
(* The import of the module, statement by statement.  The list of required *)
(* arguments is bound first (lines 120-122), then extended after one call   *)
(* of the probe (lines 124-125); the parsing mixin is bound after a second  *)
(* call of the probe (line 226).  Each call runs parted --version anew, so  *)
(* the tool the host offers is read at two different moments; last.op       *)
(* holds the position of the import until the module is loaded.             *)
(***************************************************************************)

ToolVersions == { << 1, 8 >>, << 2, 0 >>, << 3, 1 >> }

ImportInit ==
    /\ host \in ProbedHosts
    /\ PARTED_REQUIRED_ARGUMENTS = << "--script" >>
    /\ MatchingPartedMixin = "unbound"
    /\ device_access_path \in DevicePaths
    /\ disk = [label |-> "none", size |-> DiskSize, parts |-> << >>]
    /\ last = [NoCall EXCEPT !.op = "import"]

\* lines 124-125
ExtendRequiredArguments ==
    /\ last.op = "import"
    /\ PARTED_REQUIRED_ARGUMENTS' =
           PARTED_REQUIRED_ARGUMENTS \o (IF _is_parted_has_machine_parsable_output(host)
                                         THEN << "--machine" >> ELSE << >>)
    /\ last' = [last EXCEPT !.op = "extend"]
    /\ UNCHANGED << host, MatchingPartedMixin, device_access_path, disk >>

\* line 226
SelectMatchingPartedMixin ==
    /\ last.op = "extend"
    /\ MatchingPartedMixin' =
           (IF _is_parted_has_machine_parsable_output(host) THEN "PartedV2" ELSE "PartedV1")
    /\ last' = NoCall
    /\ UNCHANGED << host, PARTED_REQUIRED_ARGUMENTS, device_access_path, disk >>

\* the host's parted is installed, removed or replaced while the module loads
ToolChanges ==
    /\ last.op \in { "import", "extend" }
    /\ \E installed \in BOOLEAN, version \in ToolVersions :
           /\ host' = HostOf(host.system, installed, version, host.dist, host.ver)
           /\ host' # host
    /\ UNCHANGED << PARTED_REQUIRED_ARGUMENTS, MatchingPartedMixin, device_access_path,
                    disk, last >>

ImportNext ==
    \/ ExtendRequiredArguments
    \/ SelectMatchingPartedMixin
    \/ ToolChanges

ImportSpec == ImportInit /\ [][ImportNext]_vars

(***************************************************************************)
(* Disks under /dev/mapper as well as plain ones, with a partition table   *)
(* and a partition on them, on the Linux hosts that have parted: they are  *)
(* listed and formatted, so that the path of a partition is resolved both  *)
(* ways, from the disk by number and from the listed partition.            *)
(***************************************************************************)
\* device-mapper disks: a name ending in a letter, one ending in a digit, one
\* with the letter p before its last letter (tests/__init__.py, lines 26-53)
MapperDisks == { "/dev/mapper/mpatha", "/dev/mapper/mpath2p1", "/dev/mapper/mpathpa" }

PathInit ==
    /\ host \in { h \in ProbedHosts : h.system = "Linux" /\ h.parted_installed }
    /\ PARTED_REQUIRED_ARGUMENTS =
           << "--script" >> \o (IF _is_parted_has_machine_parsable_output(host)
                                THEN << "--machine" >> ELSE << >>)
    /\ MatchingPartedMixin =
           (IF _is_parted_has_machine_parsable_output(host) THEN "PartedV2" ELSE "PartedV1")
    /\ device_access_path \in DevicePaths \cup MapperDisks
    /\ disk \in { d \in InitialDisks : d.parts # << >> }
    /\ last = NoCall

PathNext ==
    \/ GetPartitions
    \/ FormatPartition

PathSpec == PathInit /\ [][PathNext]_vars

(***************************************************************************)
(* Properties.  A property about what a call gives after another call is   *)
(* stated on the state the first call left: the second call is worked out  *)
(* on that state with the tool behaving plainly.                           *)
(***************************************************************************)

\* the last call was create_a_new_partition_table("gpt" or "msdos") and returned
TableCreated ==
    /\ last.op = "create_a_new_partition_table"
    /\ last.res.kind = "return"
    /\ last.args[1] \in {"gpt", "msdos"}

\* C1: for t in {"gpt", "msdos"} and every disk, after create_a_new_partition_table(t)
\* has returned, get_partition_table_type() on that disk returns t.
C1_TypeAfterCreateIsLabel ==
    TableCreated =>
        get_partition_table_type(Here, PlainPlan).res = Return(PyStr(last.args[1]))

\* the table type was changed by the call: an msdos table written over a gpt one
C1_Witness ==
    /\ TableCreated
    /\ last.before.label = "gpt"
    /\ last.args[1] = "msdos"
    /\ get_partition_table_type(Here, PlainPlan).res = Return(PyStr("msdos"))

\* the last call was create_partition_for_whole_drive on a gpt or msdos disk
\* without partitions, and returned
WholeDriveDoneOnEmptyTable ==
    /\ last.op = "create_partition_for_whole_drive"
    /\ last.res.kind = "return"
    /\ last.before.label \in {"gpt", "msdos"}
    /\ last.before.parts = << >>

\* C2: after create_partition_for_whole_drive has returned on a gpt or msdos disk
\* that held no partitions, get_partitions() returns exactly one partition, its
\* get_number() is 1 and its get_filesystem_name() is None.
C2_OnePartitionWithoutFilesystem ==
    WholeDriveDoneOnEmptyTable =>
        With(get_partitions(Here, PlainPlan).res, LAMBDA partitions :
            /\ partitions.kind = "return"
            /\ partitions.value.t = "list"
            /\ Len(partitions.value.v) = 1
            /\ partitions.value.v[1].number = 1
            /\ Partition_get_filesystem_name(partitions.value.v[1], Here).res
                   = Return(PyNone))

\* C3: for label_type in {"gpt", "msdos"}, get_partitions() right after
\* create_a_new_partition_table(label_type) has returned gives the empty list,
\* whatever partitions the disk held before.
C3_NoPartitionsAfterCreate ==
    TableCreated => get_partitions(Here, PlainPlan).res = Return(PyList(<< >>))

\* the disk held a partition before the table was created
C3_Witness ==
    /\ TableCreated
    /\ Len(last.before.parts) > 0
    /\ get_partitions(Here, PlainPlan).res = Return(PyList(<< >>))

\* C4: on a disk without a partition table (parted's print fails with
\* "unrecognised disk label"), get_partition_table_type() returns None and
\* raises nothing.
C4_TypeOfBlankDiskIsNone ==
    (/\ last.op = "get_partition_table_type"
     /\ last.before.label = "none"
     /\ last.plan = PlainPlan)
    => last.res = Return(PyNone)

\* the commands of a log in the order they ran, those of the failed attempts of
\* a retried method included (once per attempt body)
RECURSIVE Commands(_)
Commands(log) ==
    IF Len(log) = 0 THEN << >>
    ELSE (IF "body" \in DOMAIN log[1] THEN Commands(log[1].body) ELSE << log[1] >>)
           \o Commands(Tail(log))

\* the run of parted behind the first command of the last call
FirstRun == PartedTool(last.before, last.log[1].argv, last.plan)

\* the last call read the table with parted installed
TableRead(op) == last.op = op /\ last.plan.print # "oserror"

Returns(parted) ==
    \/ parted.rc = 0
    \/ Contains(parted.stderr, "device-mapper: create ioctl")
    \/ Contains(parted.stdout, "WARNING")
    \/ Contains(parted.stdout, "aligned for best performance")

PolledPartition ==
    With(get_partitions(Ctx(last.before, << >>), last.plan).res, LAMBDA partitions :
        IF partitions.kind = "return" /\ partitions.value.t = "list"
               /\ Len(partitions.value.v) > 0
        THEN NodeIndex(last.before, Partition_get_access_path(partitions.value.v[1]))
        ELSE 0)

\* the attempt at which the polled node is first present and readable
FirstReadyAt(k) ==
    IF last.before.parts[k].node THEN 1 ELSE last.plan.absent + last.plan.unreadable + 1

\* C6: wait_for_partition_access_path_to_be_created is bounded and never fails
\* silently: when the node of the new partition is first present and readable at
\* poll N and N is within the budget, the call returns; when it is not within
\* the budget, the call ends by raising to its caller; no more attempts are made
\* than the budget allows.
C6_WaitBoundedNeverSilent ==
    last.op = "wait_for_partition_access_path_to_be_created" =>
        /\ \A i \in 1..Len(last.log) :
               "attempts" \in DOMAIN last.log[i] => last.log[i].attempts <= wait_max_retries
        /\ With(PolledPartition, LAMBDA k :
               IF k # 0 /\ FirstReadyAt(k) <= wait_max_retries
               THEN last.res = Return(PyNone) /\ disk.parts[k].node
               ELSE /\ last.res.kind = "raise"
                    /\ last.res.exc = "PartedException"
                    /\ disk = last.before)

\* the node came up at the last attempt of the budget, and the wait returned
C6_Witness ==
    /\ last.op = "wait_for_partition_access_path_to_be_created"
    /\ PolledPartition # 0
    /\ ~last.before.parts[PolledPartition].node
    /\ FirstReadyAt(PolledPartition) = wait_max_retries
    /\ last.res = Return(PyNone)

IsParted(c) == "argv" \in DOMAIN c /\ c.argv[1] = "parted"

\* a command line without its third word from the end (of mkpart's
\* <name|type> <fs> <start> <end>, the filesystem hint)
WithoutHint(argv) ==
    SubSeq(argv, 1, Len(argv) - 3) \o SubSeq(argv, Len(argv) - 1, Len(argv))

\* C7: when the mkpart of create_partition_for_whole_drive fails with "invalid
\* token", the error is not surfaced: the same mkpart is issued again, identical
\* but for the omitted filesystem hint, on the gpt and on the msdos path, and the
\* outcome of that second call is the outcome of the operation: its error
\* reaches the caller, its success lets the operation go on.
C7_InvalidTokenRetriedWithoutHint ==
    last.op = "create_partition_for_whole_drive" =>
        \A k \in 1..Len(last.log) :
            (/\ IsParted(last.log[k])
             /\ last.log[k].exc = "InvalidToken"
             /\ (k = 1 \/ last.log[k - 1].exc # "InvalidToken")) =>
                /\ k < Len(last.log)
                /\ IsParted(last.log[k + 1])
                /\ last.log[k + 1].argv = WithoutHint(last.log[k].argv)
                /\ last.log[k].argv[Len(last.log[k].argv) - 2] = last.args[1]
                /\ IF last.log[k + 1].exc # ""
                   THEN /\ Len(last.log) = k + 1
                        /\ last.res.kind = "raise"
                        /\ last.res.exc = last.log[k + 1].exc
                   ELSE /\ Len(last.log) > k + 1
                        /\ last.log[k + 2].argv[1] = "partprobe"
                        /\ Len(disk.parts) = Len(last.before.parts) + 1

\* parted refused the hint on an msdos disk, and the second mkpart made the
\* partition
C7_Witness ==
    /\ last.op = "create_partition_for_whole_drive"
    /\ last.before.label = "msdos"
    /\ last.res = Return(PyNone)
    /\ \E k \in 1..(Len(last.log) - 1) :
           /\ IsParted(last.log[k])
           /\ last.log[k].exc = "InvalidToken"
           /\ last.log[k + 1].argv = WithoutHint(last.log[k].argv)
           /\ last.log[k + 1].rc = 0
    /\ Len(disk.parts) = 1

\* the path format_partition resolves for the partition number it was given
FormatPath == _get_partition_acces_path_by_name(last.args[1])

IsPartedMkfs(c) ==
    /\ IsParted(c)
    /\ \E i \in 1..(Len(c.argv) - 1) : c.argv[i] = "mkfs" /\ c.argv[i + 1] = Str(last.args[1])

IsRescan(c) == c.argv[1] = "partprobe"

IsOsMkfs(c) == c.argv[1] = "mkfs." \o last.args[2] /\ c.argv[2] = FormatPath

\* C8 as stated: format_partition(number, filesystem_name) runs, in this order,
\* parted's mkfs sub-command for the partition number, a kernel re-scan, and
\* mkfs.<fs> on the resolved partition device path.
C8_PartedMkfsThenRescanThenMkfs ==
    last.op = "format_partition" =>
        With(Commands(last.log), LAMBDA commands :
            \E a, b, c \in 1..Len(commands) :
                /\ a < b
                /\ b < c
                /\ IsPartedMkfs(commands[a])
                /\ IsRescan(commands[b])
                /\ IsOsMkfs(commands[c]))

\* C8, amended: format_partition(number, filesystem_name) resolves the
\* partition's device path and runs only mkfs.<fs> on it (with -E and the
\* extended options, if any): no parted sub-command and no kernel re-scan.
C8_OnlyOsMkfsOnResolvedPath ==
    last.op = "format_partition" =>
        With(Commands(last.log), LAMBDA commands :
            /\ Len(commands) > 0
            /\ \A i \in 1..Len(commands) :
                   /\ IsOsMkfs(commands[i])
                   /\ SubSeq(commands[i].argv, 3, Len(commands[i].argv))
                          = _str_extended_options(last.args[3]))

\* an unformatted partition got its filesystem from the one mkfs run
C8_Witness ==
    /\ last.op = "format_partition"
    /\ last.res = Return(PyNone)
    /\ Len(last.before.parts) = 1
    /\ last.before.parts[1].fs = ""
    /\ disk.parts[1].fs = "ext3"
    /\ Len(Commands(last.log)) = 1
    /\ IsOsMkfs(Commands(last.log)[1])

C10_IgnoredFailuresReturnStdout ==
    TableRead("execute_parted") =>
        With(FirstRun, LAMBDA parted :
            parted.rc # 0 =>
                IF \/ Contains(parted.stderr, "device-mapper: create ioctl")
                   \/ Contains(parted.stdout, "WARNING")
                   \/ Contains(parted.stdout, "aligned for best performance")
                THEN last.res = Return(PyStr(parted.stdout))
                ELSE /\ last.res.kind = "raise"
                     /\ IsPartedRuntimeError(last.res.exc)
                     /\ last.res.rc = parted.rc)

\* parted exited 1 with the alignment advisory before the table dump, and the
\* call returned that stdout
C10_Witness ==
    /\ TableRead("execute_parted")
    /\ FirstRun.rc = 1
    /\ Contains(FirstRun.stdout, "aligned for best performance")
    /\ ~Contains(FirstRun.stdout, "WARNING")
    /\ ~Contains(FirstRun.stderr, "device-mapper: create ioctl")
    /\ last.res = Return(PyStr(FirstRun.stdout))

\* a command that failed in a way the code has no pattern for: partprobe,
\* multipath or mkfs exiting nonzero, or a run of parted that execute_parted
\* turned into a plain PartedRuntimeError, other than the print of a disk
\* that says it has no table
Unrecognised(c) ==
    /\ c.rc > 0
    /\ IsParted(c) =>
           /\ c.exc = "PartedRuntimeError"
           /\ ~(/\ ToolSlot(PartedCommand(c.argv)) = "print"
                /\ last.plan.print = "none")

\* C11: no operation swallows an unrecognised failure: whenever an external
\* command run by a Disk operation (parted, partprobe, multipath, mkfs) exits
\* nonzero with output matching none of the benign or no-table patterns, the
\* operation fails to its caller and does not return normally.
C11_NoFailureSwallowed ==
    With(Commands(last.log), LAMBDA commands :
        (\E i \in 1..Len(commands) : Unrecognised(commands[i])) => last.res.kind = "raise")

RedHatFamily ==
    \E name \in {"red hat", "centos"} : StartsWith(Lower(host.dist), name)

\* the last character of the path get_multipath_prefix was asked about is a digit
PathEndsInDigit ==
    SubSeq(last.args[1], Len(last.args[1]), Len(last.args[1])) \in DigitChars

\* C12: on a Red Hat or CentOS host get_multipath_prefix returns "" when the
\* major version is 7 and the access path ends in a digit, and "p" in every
\* other case of that family.
C12_RedHat7DigitGivesNoPrefix ==
    (last.op = "get_multipath_prefix" /\ RedHatFamily) =>
        last.res = Return(PyStr(IF SubSeq(host.ver, 1, 2) = "7." /\ PathEndsInDigit
                                THEN "" ELSE "p"))

\* what tests/__init__.py expects of each access path
ExpectedPrefix(access_path) ==
    CASE access_path \in {"/dev/mapper/mpatha-part1", "/dev/mapper/mpathac-part1",
                          "/dev/mapper/mpath21-part1"} -> "-part"
      [] access_path \in {"/dev/mapper/mpatha-p1", "/dev/mapper/mpath2-p1"} -> "-p"
      [] access_path = "/dev/mapper/mpath2p1" -> "p"
      [] access_path = "/dev/mapper/mpath2_part1" -> "_part"
      [] OTHER -> ""

\* C13: get_multipath_prefix derives the prefix from the access path: the
\* separator between the multipath alias and the partition number ("-part",
\* "-p", "p", "_part"), and "" for a path without a partition suffix.
C13_PrefixIsThePathsSeparator ==
    last.op = "get_multipath_prefix" =>
        last.res = Return(PyStr(ExpectedPrefix(last.args[1])))

\* the last call was get_partitions() and returned a list of n > 0 partitions
PartitionsListed ==
    /\ last.op = "get_partitions"
    /\ last.res.kind = "return"
    /\ last.res.value.t = "list"
    /\ Len(last.res.value.v) > 0

\* C14: for every partition parsed from a table row, get_size_in_bytes() is
\* min(end - start, reported size), taken from the row parted printed for the
\* partition, and is never negative.
C14_SizeIsMinOfSpanAndReported ==
    PartitionsListed =>
        /\ Len(last.res.value.v) = Len(disk.parts)
        /\ \A i \in 1..Len(disk.parts) :
               With(disk.parts[i], LAMBDA row :
               With(Partition_get_size_in_bytes(last.res.value.v[i]), LAMBDA size :
                   /\ size = (IF row.end - row.start <= row.end - row.start + 1
                              THEN row.end - row.start ELSE row.end - row.start + 1)
                   /\ size >= 0))

\* a partition of 2000 bytes was listed: its span is 1999, its size column 2000
C14_Witness ==
    /\ PartitionsListed
    /\ last.res.value.v[1].size = 2000
    /\ last.res.value.v[1].end - last.res.value.v[1].start = 1999
    /\ Partition_get_size_in_bytes(last.res.value.v[1]) = 1999

\* the row parted prints for partition i of the disk, in each format (without
\* the newline), its fields as each parser cuts them, and what each parser
\* makes of it
ModernLine(i) == DropLast(MachineRow(disk.parts[i], disk.label))

LegacyLine(i) == DropLast(HumanRow(disk.parts[i], disk.label))

ModernFields(i) == Split(StripChars(ModernLine(i), {";"}), ":")

LegacyColumns ==
    With(DropLast(HumanHeader(disk.label)), LAMBDA header :
        [n \in 1..7 |->
            Find(header, (IF disk.label = "gpt"
                          THEN << "Number", "Start", "End", "Size", "File system", "Name",
                                  "Flags" >>
                          ELSE << "Number", "Start", "End", "Size", "Type", "File system",
                                  "Flags" >>)[n])])

LegacyFields(i) == ColumnItems(LegacyLine(i), LegacyColumns)

Modern(i) ==
    IF disk.label = "gpt"
    THEN GUIDPartition_from_parted_machine_parsable_line(device_access_path, ModernLine(i))
    ELSE MBRPartition_from_parted_machine_parsable_line(device_access_path, ModernLine(i))

Legacy(i) ==
    IF disk.label = "gpt"
    THEN GUIDPartition_from_parted_non_machine_parsable_line(
             device_access_path, LegacyLine(i), LegacyColumns)
    ELSE MBRPartition_from_parted_non_machine_parsable_line(
             device_access_path, LegacyLine(i), LegacyColumns)

\* partition i as get_partitions() listed it is what this host's parser makes
\* of the row
ListedAsParsed(i) ==
    last.res.value.v[i] =
        (IF MatchingPartedMixin = "PartedV2" THEN Modern(i) ELSE Legacy(i)).value

\* C15 as stated: in both parsing strategies the 5th field of an MBR row
\* becomes the partition's type and the 5th field of a GUID row its
\* filesystem, and the two parsers give the same attributes for the same
\* partition.
C15_FifthFieldByLabelInBothParsers ==
    (PartitionsListed /\ last.plan = PlainPlan) =>
        \A i \in 1..Len(disk.parts) :
            /\ ListedAsParsed(i)
            /\ Modern(i) = Legacy(i)
            /\ IF disk.label = "gpt"
               THEN /\ Modern(i).value.filesystem = ModernFields(i)[5]
                    /\ Legacy(i).value.filesystem = LegacyFields(i)[5]
               ELSE /\ Modern(i).value.type = ModernFields(i)[5]
                    /\ Legacy(i).value.type = LegacyFields(i)[5]

\* C15, amended: row fields are assigned by label type and by format.  A GUID
\* row's 5th field is the filesystem and its 6th the name, in both formats.
\* An MBR row's 5th field is the type and its 6th the filesystem in the
\* column-aligned format, and the other way round (5th the filesystem, 6th
\* the type) in the colon-delimited one.  The two parsers give the same
\* number, start, end, size and filesystem for the same partition, and the
\* same GUID name; the MBR type is the Type column for the legacy parser and
\* the (empty) sixth field for the modern one.
C15_FieldsByLabelAndFormat ==
    (PartitionsListed /\ last.plan = PlainPlan) =>
        \A i \in 1..Len(disk.parts) :
            With(Modern(i).value, LAMBDA modern :
            With(Legacy(i).value, LAMBDA legacy :
                /\ ListedAsParsed(i)
                /\ \A p \in {modern, legacy} :
                       /\ p.number = disk.parts[i].number
                       /\ p.start = disk.parts[i].start
                       /\ p.end = disk.parts[i].end
                       /\ p.size = disk.parts[i].end - disk.parts[i].start + 1
                       /\ p.filesystem = disk.parts[i].fs
                /\ IF disk.label = "gpt"
                   THEN /\ modern = legacy
                        /\ modern.filesystem = ModernFields(i)[5]
                        /\ modern.name = ModernFields(i)[6]
                        /\ legacy.filesystem = LegacyFields(i)[5]
                        /\ legacy.name = LegacyFields(i)[6]
                        /\ legacy.name = disk.parts[i].tag
                   ELSE /\ modern.filesystem = ModernFields(i)[5]
                        /\ modern.type = ModernFields(i)[6]
                        /\ modern.type = ""
                        /\ legacy.type = LegacyFields(i)[5]
                        /\ legacy.filesystem = LegacyFields(i)[6]
                        /\ legacy.type = disk.parts[i].tag))

\* an msdos disk with a primary ext3 partition was listed
C15_Witness ==
    /\ PartitionsListed
    /\ last.plan = PlainPlan
    /\ disk.label = "msdos"
    /\ disk.parts[1].fs = "ext3"
    /\ Modern(1).value.filesystem = "ext3"
    /\ Legacy(1).value.type = "primary"
    /\ ListedAsParsed(1)

\* C16: get_partitions() always returns a sequence: the empty one when the
\* disk has no table, the parsed partitions when the label is "msdos" or
\* "gpt", and the empty one (not None, not an error) when the table's label
\* is neither.
C16_GetPartitionsReturnsASequence ==
    (last.op = "get_partitions" /\ last.plan = PlainPlan) =>
        /\ last.res.kind = "return"
        /\ last.res.value.t = "list"
        /\ IF disk.label \in {"gpt", "msdos"}
           THEN /\ Len(last.res.value.v) = Len(disk.parts)
                /\ \A i \in 1..Len(disk.parts) :
                       last.res.value.v[i].number = disk.parts[i].number
           ELSE last.res.value.v = << >>

IsMklabel(c) == IsParted(c) /\ ToolSlot(PartedCommand(c.argv)) = "mklabel"

IsMkpart(c) == IsParted(c) /\ ToolSlot(PartedCommand(c.argv)) \in {"mkpart", "mkpart_nofs"}

IsPrint(c) == IsParted(c) /\ ToolSlot(PartedCommand(c.argv)) = "print"

\* parted reads no partition table on the disk
NoTable(d) == d.label \in {"none", "oversize"}

\* the entries of a partition table (the device nodes apart)
Entries(parts) ==
    [i \in 1..Len(parts) |->
        [number |-> parts[i].number, start |-> parts[i].start, end |-> parts[i].end,
         fs |-> parts[i].fs, tag |-> parts[i].tag]]

\* C17: create_partition_for_whole_drive issues a mklabel if and only if the
\* disk has no partition table at the time of the call (and the check of that
\* did not fail), and then for "gpt"; a table that exists is never re-created
\* or replaced; when the check fails with InvalidPartitionTable nothing on the
\* disk is changed.
C17_MklabelOnlyWithoutTable ==
    last.op = "create_partition_for_whole_drive" =>
        With(Commands(last.log), LAMBDA commands :
        With({i \in 1..Len(commands) : IsMklabel(commands[i])}, LAMBDA mklabels :
            /\ mklabels # {} <=>
                   (NoTable(last.before) /\ last.res.exc # "InvalidPartitionTable")
            /\ \A i \in mklabels :
                   /\ i = 2
                   /\ PartedCommand(commands[i].argv) = << "mklabel", "gpt" >>
            /\ mklabels # {} /\ commands[2].rc = 0 => disk.label = "gpt"
            /\ ~NoTable(last.before) =>
                   /\ disk.label = last.before.label
                   /\ SubSeq(Entries(disk.parts), 1, Len(last.before.parts))
                          = Entries(last.before.parts)
            /\ last.res.exc = "InvalidPartitionTable" =>
                   /\ disk = last.before
                   /\ Len(commands) = 1
                   /\ IsPrint(commands[1])))

\* a blank disk got its gpt table and a partition from the call
C17_Witness ==
    /\ last.op = "create_partition_for_whole_drive"
    /\ last.before.label = "none"
    /\ last.res = Return(PyNone)
    /\ IsMklabel(last.log[2])
    /\ disk.label = "gpt"
    /\ Len(disk.parts) = 1

\* C18: when the existing table's label type has no entry in
\* START_OFFSET_BY_LABEL_TYPE, create_partition_for_whole_drive is a silent
\* no-op: it returns without error, having run no mkpart, no kernel re-scan and
\* no poll of a device node (only reads of the table), and the disk is as it
\* was.
C18_UnknownLabelIsNoOp ==
    (/\ last.op = "create_partition_for_whole_drive"
     /\ ~NoTable(last.before)
     /\ last.before.label \notin DOMAIN START_OFFSET_BY_LABEL_TYPE
     /\ last.plan.print = "none") =>
        /\ last.res = Return(PyNone)
        /\ disk = last.before
        /\ \A i \in 1..Len(last.log) : IsPrint(last.log[i])

\* the call was made on a disk with a "loop" table and read the table twice
C18_Witness ==
    /\ last.op = "create_partition_for_whole_drive"
    /\ last.before.label = "loop"
    /\ last.res = Return(PyNone)
    /\ Len(last.log) = 2
    /\ disk = last.before

\* the smallest multiple of alignment that is at least minimum
SmallestMultipleFrom(minimum, alignment) ==
    CHOOSE m \in minimum..(minimum + alignment - 1) : m % alignment = 0

\* C19: the start passed to mkpart is the label's minimum offset (gpt 17408,
\* msdos 512) without alignment, else the smallest multiple of
\* alignment_in_bytes at or above it; the end passed is the disk size minus
\* that start; start < end when the disk is larger than twice the start.
C19_StartAlignedEndIsSizeMinusStart ==
    last.op = "create_partition_for_whole_drive" =>
        With(Commands(last.log), LAMBDA commands :
            \A i \in 1..Len(commands) :
                IsMkpart(commands[i]) =>
                    With(IF last.before.label = "msdos" THEN 512 ELSE 17408, LAMBDA minimum :
                    With(IF last.args[2] = 0 THEN minimum
                         ELSE SmallestMultipleFrom(minimum, last.args[2]), LAMBDA start :
                    With(commands[i].argv, LAMBDA argv :
                        /\ argv[Len(argv) - 1] = Str(start) \o "B"
                        /\ argv[Len(argv)] = Str(last.before.size - start) \o "B"
                        /\ last.before.size > 2 * start => start < last.before.size - start))))

\* an msdos disk, alignment 4096: mkpart from 4096B to the size less 4096
C19_Witness ==
    /\ last.op = "create_partition_for_whole_drive"
    /\ last.before.label = "msdos"
    /\ last.args[2] = 4096
    /\ last.res = Return(PyNone)
    /\ \E i \in 1..Len(last.log) :
           /\ IsMkpart(last.log[i])
           /\ last.log[i].argv[Len(last.log[i].argv) - 1] = "4096B"
    /\ disk.parts[1].start = 4096
    /\ disk.parts[1].end = last.before.size - 4096

\* C20: the output format is the machine-parsable one exactly when the host is
\* Linux and the parted found is of version 2.0 or later; a host that is not
\* Linux gets the legacy format whatever the version, and a host without
\* parted gets the legacy format, nothing raised.
C20_ModernIffLinuxAndVersion2 ==
    With(/\ host.system = "Linux"
         /\ host.parted_installed
         /\ host.parted_version[1] >= 2, LAMBDA modern :
        /\ MatchingPartedMixin = (IF modern THEN "PartedV2" ELSE "PartedV1")
        /\ PARTED_REQUIRED_ARGUMENTS
               = (IF modern THEN << "--script", "--machine" >> ELSE << "--script" >>))

\* a host that is not Linux with parted 3.1: the legacy format
C20_Witness ==
    /\ host.system # "Linux"
    /\ host.parted_installed
    /\ host.parted_version = << 3, 1 >>
    /\ MatchingPartedMixin = "PartedV1"
    /\ last.op = "get_multipath_prefix"

(***************************************************************************)
(* C21.  Once the module is loaded, "--machine" is among the arguments      *)
(* passed to the tool if and only if Disk parses with PartedV2, whatever    *)
(* the host's parted did between the two calls of the probe.                *)
(***************************************************************************)
ModuleLoaded == MatchingPartedMixin # "unbound"

MachineRequested ==
    \E i \in 1..Len(PARTED_REQUIRED_ARGUMENTS) : PARTED_REQUIRED_ARGUMENTS[i] = "--machine"

C21_FormatRequestedIsFormatParsed ==
    ModuleLoaded => (MachineRequested <=> MatchingPartedMixin = "PartedV2")


\* the index in the disk of the partition get_partitions() lists first, 0 when
\* it lists none
FirstListed ==
    With(get_partitions(Here, PlainPlan).res, LAMBDA partitions :
        IF partitions.kind = "return" /\ partitions.value.t = "list"
               /\ Len(partitions.value.v) > 0
        THEN NodeIndex(disk, Partition_get_access_path(partitions.value.v[1]))
        ELSE 0)

\* the three commands of a kernel re-scan start at position i
RescanAt(commands, i) ==
    /\ i + 2 <= Len(commands)
    /\ SubSeq(commands, i, i + 2) = RescanCommands(last.plan)

\* C22: for a label type that has a start offset, create_partition_for_whole_drive
\* runs mkpart, then the kernel re-scan, then polls the device node, in this
\* order: every mkpart precedes every re-scan, the first re-scan comes right
\* after a mkpart that did not raise, and a table read of the polling follows
\* it; the call returns normally only when the last thing it did was a poll
\* (after the re-scan) that found the node of the first listed partition
\* present and readable; when the last mkpart raised (the retried InvalidToken
\* apart) it is the last command: no re-scan, no poll, and the call raises.
C22_MkpartThenRescanThenPoll ==
    last.op = "create_partition_for_whole_drive" =>
        With(Commands(last.log), LAMBDA commands :
        With({i \in 1..Len(commands) : IsMkpart(commands[i])}, LAMBDA mkparts :
        With({i \in 1..Len(commands) : IsRescan(commands[i])}, LAMBDA rescans :
            /\ \A r \in rescans : RescanAt(commands, r)
            /\ rescans # {} => mkparts # {}
            /\ \A m \in mkparts : \A r \in rescans : m < r
            /\ \A m \in mkparts :
                   IF commands[m].exc = ""
                   THEN /\ m + 1 \in rescans
                        /\ \E p \in (m + 4)..Len(commands) : IsPrint(commands[p])
                   ELSE IF commands[m].exc = "InvalidToken" /\ m + 1 \in mkparts
                   THEN commands[m + 1].argv = WithoutHint(commands[m].argv)
                   ELSE /\ m = Len(commands)
                        /\ rescans = {}
                        /\ last.res.kind = "raise"
                        /\ last.res.exc = commands[m].exc
            /\ (last.res = Return(PyNone) /\ disk.label \in DOMAIN START_OFFSET_BY_LABEL_TYPE) =>
                   /\ \E m \in mkparts : commands[m].exc = ""
                   /\ rescans # {}
                   /\ IsPrint(commands[Len(commands)])
                   /\ \A r \in rescans : r + 2 < Len(commands)
                   /\ FirstListed # 0
                   /\ disk.parts[FirstListed].node)))

\* a blank disk: the mkpart was retried after InvalidToken, the re-scan followed,
\* and the call returned once the node of the new partition was there
C22_Witness ==
    /\ last.op = "create_partition_for_whole_drive"
    /\ last.before.parts = << >>
    /\ last.plan.mkpart = "invalid_token"
    /\ last.res = Return(PyNone)
    /\ \E i \in 1..Len(Commands(last.log)) : IsRescan(Commands(last.log)[i])
    /\ Len(disk.parts) = 1
    /\ disk.parts[1].node


\* the partitions get_partitions() returned to the last call
Listed ==
    IF last.op = "get_partitions" /\ last.res.kind = "return" /\ last.res.value.t = "list"
    THEN last.res.value.v ELSE << >>

\* the partitions get_partitions() lists on the disk as it is now
ListedNow ==
    With(get_partitions(Here, PlainPlan).res, LAMBDA partitions :
        IF partitions.kind = "return" /\ partitions.value.t = "list"
        THEN partitions.value.v ELSE << >>)

\* C23: the path the disk resolves for partition number n is the access path
\* of the partition numbered n that get_partitions() returns, for MBR and for
\* GUID partitions, on plain and on device-mapper disks; on a disk whose path
\* does not contain "mapper" both are the disk's path followed by n; and the
\* node format_partition hands to mkfs is that path.
C23_PathByNameIsPartitionsPath ==
    /\ \A i \in 1..Len(Listed) :
           /\ _get_partition_acces_path_by_name(Listed[i].number)
                  = Partition_get_access_path(Listed[i])
           /\ ~Contains(device_access_path, "mapper") =>
                  Partition_get_access_path(Listed[i])
                      = device_access_path \o Str(Listed[i].number)
    /\ last.op = "format_partition" =>
           /\ \A i \in 1..Len(Commands(last.log)) :
                  /\ Commands(last.log)[i].argv[2] = FormatPath
                  /\ \A k \in 1..Len(ListedNow) :
                         ListedNow[k].number = last.args[1] =>
                             Commands(last.log)[i].argv[2]
                                 = Partition_get_access_path(ListedNow[k])
           /\ ~Contains(device_access_path, "mapper") =>
                  FormatPath = device_access_path \o Str(last.args[1])

\* a partition listed on a device-mapper disk whose path takes a prefix
C23_Witness ==
    /\ Contains(device_access_path, "mapper")
    /\ Len(Listed) > 0
    /\ Partition_get_access_path(Listed[1]) # device_access_path \o Str(Listed[1].number)
    /\ _get_partition_acces_path_by_name(1) = Partition_get_access_path(Listed[1])

=============================================================================
